---- MODULE Spec2Model ----
(***************************************************************************)
(* The three generation pipelines of the BA copilot backend:               *)
(*   backend/services/requirements_extractor.py                            *)
(*   backend/services/story_generator.py                                   *)
(*   backend/services/criteria_generator.py                                *)
(* A text is a sequence of characters; a character is a one-character      *)
(* string, "BULLET" standing for U+2022.                                   *)
(***************************************************************************)
EXTENDS Integers, Sequences, FiniteSets, TLC

(***************************************************************************)
(* Python str and re primitives                                            *)
(***************************************************************************)

\* the characters \s, str.strip() and str.split() treat as white space
Whitespace == {" ", "\n", "\t"}

\* the characters \d matches
Digit == {"0", "1", "2", "3", "4", "5", "6", "7", "8", "9"}

DigitChars == <<"0", "1", "2", "3", "4", "5", "6", "7", "8", "9">>

UpperChars == <<"A", "B", "C", "D", "E", "F", "G", "H", "I", "J", "K", "L", "M",
    "N", "O", "P", "Q", "R", "S", "T", "U", "V", "W", "X", "Y", "Z">>

LowerChars == <<"a", "b", "c", "d", "e", "f", "g", "h", "i", "j", "k", "l", "m",
    "n", "o", "p", "q", "r", "s", "t", "u", "v", "w", "x", "y", "z">>

\* str.lower() of one character
LowerChar(c) ==
    IF \E k \in 1..26 : UpperChars[k] = c
    THEN LowerChars[CHOOSE k \in 1..26 : UpperChars[k] = c]
    ELSE c

\* str.lower()
Lower(s) == [k \in 1..Len(s) |-> LowerChar(s[k])]

\* greedy \s* from i: the first index >= i that holds no white space
RECURSIVE SkipWs(_, _)
SkipWs(s, i) ==
    IF i <= Len(s) /\ s[i] \in Whitespace THEN SkipWs(s, i + 1) ELSE i

\* greedy \d* from i: the first index >= i that holds no digit
RECURSIVE SkipDigits(_, _)
SkipDigits(s, i) ==
    IF i <= Len(s) /\ s[i] \in Digit THEN SkipDigits(s, i + 1) ELSE i

\* the last index <= j that holds no white space (0 if none)
RECURSIVE RSkipWs(_, _)
RSkipWs(s, j) ==
    IF j >= 1 /\ s[j] \in Whitespace THEN RSkipWs(s, j - 1) ELSE j

\* the first index >= i that holds white space (Len(s) + 1 if none)
RECURSIVE WordEnd(_, _)
WordEnd(s, i) ==
    IF i <= Len(s) /\ s[i] \notin Whitespace THEN WordEnd(s, i + 1) ELSE i

\* the least element of a non-empty set of indices
Min(S) == CHOOSE x \in S : \A y \in S : x <= y

\* the literal lit stands in s at index i
LitAt(s, i, lit) ==
    /\ i >= 1
    /\ i + Len(lit) - 1 <= Len(s)
    /\ \A k \in 1..Len(lit) : s[i + k - 1] = lit[k]

\* lit in s
Contains(s, lit) == \E i \in 1..(Len(s) - Len(lit) + 1) : LitAt(s, i, lit)

\* s.startswith(lit)
StartsWith(s, lit) == LitAt(s, 1, lit)

\* s.strip()
Strip(s) == SubSeq(s, SkipWs(s, 1), RSkipWs(s, Len(s)))

\* s.lstrip(chars)
RECURSIVE LStripChars(_, _)
LStripChars(s, chars) ==
    IF s # <<>> /\ s[1] \in chars THEN LStripChars(Tail(s), chars) ELSE s

\* s.find(sep, i - 1) + 1: the least index >= i at which sep stands, 0 if none
IndexFrom(s, sep, i) ==
    LET hits == {j \in i..(Len(s) - Len(sep) + 1) : LitAt(s, j, sep)}
    IN IF hits = {} THEN 0 ELSE Min(hits)

\* s.split(sep) for a non-empty separator: the pieces from index start on
RECURSIVE SplitFrom(_, _, _)
SplitFrom(s, sep, start) ==
    LET j == IndexFrom(s, sep, start)
    IN IF j = 0 THEN <<SubSeq(s, start, Len(s))>>
       ELSE <<SubSeq(s, start, j - 1)>> \o SplitFrom(s, sep, j + Len(sep))

Split(s, sep) == SplitFrom(s, sep, 1)

\* s.split(): the maximal runs of non-white-space characters from index i
RECURSIVE SplitWords(_, _)
SplitWords(s, i) ==
    LET a == SkipWs(s, i)
        b == WordEnd(s, a)
    IN IF a > Len(s) THEN <<>> ELSE <<SubSeq(s, a, b - 1)>> \o SplitWords(s, b)

\* sep.join(parts)
RECURSIVE Join(_, _)
Join(parts, sep) ==
    IF parts = <<>> THEN <<>>
    ELSE IF Len(parts) = 1 THEN parts[1]
    ELSE parts[1] \o sep \o Join(Tail(parts), sep)

\* A clean-up that would replace each two spaces by one: s.replace('  ', ' ')
CollapsePairs(s) == Join(Split(s, <<" ", " ">>), <<" ">>)

\* ' '.join(s.split())
CollapseWhitespace(s) == Join(SplitWords(s, 1), <<" ">>)

\* str(n) for n >= 0
RECURSIVE Decimal(_)
Decimal(n) ==
    IF n < 10 THEN <<DigitChars[n + 1]>>
    ELSE Decimal(n \div 10) \o <<DigitChars[(n % 10) + 1]>>

\* f'{n:03d}'
Pad03d(n) ==
    LET d == Decimal(n)
    IN [k \in 1..(IF Len(d) < 3 THEN 3 - Len(d) ELSE 0) |-> "0"] \o d

(***************************************************************************)
(* requirements_extractor.py: the parsers                                  *)
(***************************************************************************)

FR == <<"F", "R">>

NFR == <<"N", "F", "R">>

BulletChars == {"-", "*", "BULLET"}

FunctionalRequirements == <<"F", "u", "n", "c", "t", "i", "o", "n", "a", "l", " ", "R", "e",
    "q", "u", "i", "r", "e", "m", "e", "n", "t", "s">>

FUNCTIONAL_REQUIREMENTS == <<"F", "U", "N", "C", "T", "I", "O", "N", "A", "L", " ", "R", "E",
    "Q", "U", "I", "R", "E", "M", "E", "N", "T", "S">>

NonFunctionalRequirements == <<"N", "o", "n", "-", "F", "u", "n", "c", "t", "i", "o", "n", "a",
    "l", " ", "R", "e", "q", "u", "i", "r", "e", "m", "e", "n", "t", "s">>

NON_FUNCTIONAL_REQUIREMENTS == <<"N", "O", "N", "-", "F", "U", "N", "C", "T", "I", "O", "N",
    "A", "L", " ", "R", "E", "Q", "U", "I", "R", "E", "M", "E", "N", "T", "S">>

NonSpaceFunctionalRequirements == <<"N", "o", "n", " ", "F", "u", "n", "c", "t", "i", "o", "n",
    "a", "l", " ", "R", "e", "q", "u", "i", "r", "e", "m", "e", "n", "t", "s">>

\* {req_prefix}-\d+ at index j: the index after the code, 0 when it does not match
CodeAt(s, j, prefix) ==
    IF LitAt(s, j, prefix \o <<"-">>)
    THEN LET d == j + Len(prefix) + 1
             e == SkipDigits(s, d)
         IN IF e > d THEN e ELSE 0
    ELSE 0

\* The index at which group 1 of pattern k starts when the pattern is tried at
\* index i, 0 when its opening does not stand there:
\*   1: [-*BULLET]\s*(      2: \n(      3: \*\*(
CodeStart(s, i, k) ==
    CASE k = 1 -> IF i >= 1 /\ i <= Len(s) /\ s[i] \in BulletChars
                  THEN SkipWs(s, i + 1) ELSE 0
      [] k = 2 -> IF LitAt(s, i, <<"\n">>) THEN i + 1 ELSE 0
      [] k = 3 -> IF LitAt(s, i, <<"*", "*">>) THEN i + 2 ELSE 0

\* what stands between group 1 and the \s* of pattern k
Close(k) == IF k = 3 THEN <<"*", "*", ":">> ELSE <<":">>

\* The lookahead of pattern k at index e:
\*   1: (?=\n[-*BULLET]\s*{req_prefix}-\d+:|\n##|\Z)
\*   2: (?=\n{req_prefix}-\d+:|\n##|\Z)
\*   3: (?=\n\*\*{req_prefix}-\d+|\n##|\Z)
PatternLookahead(s, e, prefix, k) ==
    \/ e = Len(s) + 1
    \/ LitAt(s, e, <<"\n", "#", "#">>)
    \/ /\ LitAt(s, e, <<"\n">>)
       /\ CASE k = 1 -> LitAt(s, CodeAt(s, CodeStart(s, e + 1, 1), prefix), <<":">>)
            [] k = 2 -> LitAt(s, CodeAt(s, e + 1, prefix), <<":">>)
            [] k = 3 -> /\ LitAt(s, e + 1, <<"*", "*">>)
                        /\ CodeAt(s, e + 3, prefix) > 0

\* lazy (.+?): the first index >= e at which the lookahead holds
FirstLookahead(s, e, prefix, k) ==
    Min({j \in e..(Len(s) + 1) : PatternLookahead(s, j, prefix, k)})

NoMatch == [ok |-> FALSE, code |-> <<>>, desc |-> <<>>, end |-> 0]

\* The index at which group 2 starts behind the head that ends before index
\* after, 0 if none: the greedy \s* gives its last character back to (.+?) when
\* it ran to the end of the text.
GroupStart(s, after) ==
    IF SkipWs(s, after) <= Len(s) THEN SkipWs(s, after)
    ELSE IF SkipWs(s, after) > after THEN Len(s) ELSE 0

\* the match of pattern k with group 1 = s[cs..ce-1] and group 2 from index p
MatchFromGroup(s, cs, ce, p, prefix, k) ==
    IF p = 0 THEN NoMatch
    ELSE [ok |-> TRUE, code |-> SubSeq(s, cs, ce - 1),
          desc |-> SubSeq(s, p, FirstLookahead(s, p + 1, prefix, k) - 1),
          end |-> FirstLookahead(s, p + 1, prefix, k)]

\* the match of pattern k with group 1 = s[cs..ce-1]; ce = 0: no code at cs
MatchFromCode(s, cs, ce, prefix, k) ==
    IF ce > 0 /\ LitAt(s, ce, Close(k))
    THEN MatchFromGroup(s, cs, ce, GroupStart(s, ce + Len(Close(k))), prefix, k)
    ELSE NoMatch

\* the match of pattern k with group 1 from index cs; cs = 0: no opening
MatchFromCodeStart(s, cs, prefix, k) ==
    MatchFromCode(s, cs, CodeAt(s, cs, prefix), prefix, k)

\* pattern k tried at index i: opening, code, colon, \s*, (.+?), lookahead
PatternMatchAt(s, i, prefix, k) ==
    MatchFromCodeStart(s, CodeStart(s, i, k), prefix, k)

\* re.findall(patterns[k], section_text, re.MULTILINE | re.DOTALL) from index i:
\* the leftmost match, then the matches behind its end
RECURSIVE FindAllFrom(_, _, _, _)

FindAllBehind(s, m, prefix, k) ==
    <<<<m.code, m.desc>>>> \o FindAllFrom(s, m.end, prefix, k)

FindAllAt(s, starts, prefix, k) ==
    IF starts = {} THEN <<>>
    ELSE FindAllBehind(s, PatternMatchAt(s, Min(starts), prefix, k), prefix, k)

FindAllFrom(s, i, prefix, k) ==
    FindAllAt(s, {j \in i..Len(s) : PatternMatchAt(s, j, prefix, k).ok}, prefix, k)

FindAll(s, prefix, k) == FindAllFrom(s, 1, prefix, k)

\* the characters of [:.\s]
SeparatorChars == {":", "."} \cup Whitespace

\* greedy [:.\s]* from i
RECURSIVE SkipSeparators(_, _)
SkipSeparators(s, i) ==
    IF i <= Len(s) /\ s[i] \in SeparatorChars THEN SkipSeparators(s, i + 1) ELSE i

\* ({req_prefix}-?\d+)[:.\s]+(.+) on a line (no \n in it) with group 1 =
\* line[i..e-1]; [:.\s]+ gives its last character back to (.+) when it ran to
\* the line's end
LooseMatchFrom(line, i, e, q) ==
    IF (IF q <= Len(line) THEN q ELSE q - 1) > e
    THEN [ok |-> TRUE, code |-> SubSeq(line, i, e - 1),
          desc |-> SubSeq(line, IF q <= Len(line) THEN q ELSE q - 1, Len(line)),
          end |-> Len(line) + 1]
    ELSE NoMatch

\* the same with the digits of group 1 from index d
LooseMatchDigits(line, i, d, e) ==
    IF e > d THEN LooseMatchFrom(line, i, e, SkipSeparators(line, e)) ELSE NoMatch

\* the same tried at index i
LooseMatchAt(line, i, prefix) ==
    IF LitAt(line, i, prefix)
    THEN IF LitAt(line, i + Len(prefix), <<"-">>)
         THEN LooseMatchDigits(line, i, i + Len(prefix) + 1,
                               SkipDigits(line, i + Len(prefix) + 1))
         ELSE LooseMatchDigits(line, i, i + Len(prefix),
                               SkipDigits(line, i + Len(prefix)))
    ELSE NoMatch

\* re.search(rf'({req_prefix}-?\d+)[:.\s]+(.+)', line): the leftmost match
LooseSearchIn(line, starts, prefix) ==
    IF starts = {} THEN NoMatch ELSE LooseMatchAt(line, Min(starts), prefix)

LooseSearch(line, prefix) ==
    LooseSearchIn(line, {j \in 1..Len(line) : LooseMatchAt(line, j, prefix).ok}, prefix)

\* A fallback that would take nothing from a line
SkipLine(line, m, prefix) == <<>>

\* one line of the line-by-line fallback, m the search on it
LineMatch(line, m, prefix) ==
    IF Contains(line, prefix) /\ Contains(line, <<":">>) /\ m.ok
    THEN <<<<m.code, m.desc>>>> ELSE <<>>

\* the line-by-line fallback over the lines of a section
RECURSIVE LineScan(_, _)
LineScan(lines, prefix) ==
    IF lines = <<>> THEN <<>>
    ELSE LineMatch(Strip(lines[1]), LooseSearch(Strip(lines[1]), prefix), prefix)
            \o LineScan(Tail(lines), prefix)

\* the loop over the patterns from pattern k, m the matches of pattern k: the
\* first pattern that matches anything, else the line scan
RECURSIVE FindMatchesFrom(_, _, _)

\* A loop that would add the matches of the later patterns to those of pattern k
MergeMatches(s, prefix, k, m) ==
    m \o FindMatchesFrom(s, prefix, k + 1)

FirstMatches(s, prefix, k, m) ==
    IF m # <<>> THEN m ELSE FindMatchesFrom(s, prefix, k + 1)

FindMatchesFrom(s, prefix, k) ==
    IF k > 3 THEN LineScan(Split(s, <<"\n">>), prefix)
    ELSE FirstMatches(s, prefix, k, FindAll(s, prefix, k))

FindMatches(s, prefix) == FindMatchesFrom(s, prefix, 1)

ReqType(prefix) == IF prefix = FR THEN "Functional" ELSE "Non-Functional"

\* one match of the loop "Process all matches", stripped
ProcessMatch(req_code, description, prefix) ==
    IF Len(description) > 10
    THEN <<[req_code |-> IF Contains(req_code, <<"-">>) THEN req_code
                         ELSE prefix \o <<"-">> \o req_code,
            req_type |-> ReqType(prefix),
            description |-> description]>>
    ELSE <<>>

\* the loop "Process all matches" of _extract_requirement_items
RECURSIVE ProcessMatches(_, _)
ProcessMatches(matches, prefix) ==
    IF matches = <<>> THEN <<>>
    ELSE ProcessMatch(Strip(matches[1][1]),
                      CollapseWhitespace(Strip(matches[1][2])), prefix)
            \o ProcessMatches(Tail(matches), prefix)

ExtractRequirementItems(section_text, req_prefix) ==
    ProcessMatches(FindMatches(section_text, req_prefix), req_prefix)

IsFunctionalHeader(s) ==
    Contains(s, FunctionalRequirements) \/ Contains(s, FUNCTIONAL_REQUIREMENTS)

IsNonFunctionalHeader(s) ==
    \/ Contains(s, NonFunctionalRequirements)
    \/ Contains(s, NON_FUNCTIONAL_REQUIREMENTS)

\* The branch of _parse_requirements a section takes: "functional" (the if),
\* "non_functional" (the elif) or "none"
SectionKind(section) ==
    IF IsFunctionalHeader(section) THEN "functional"
    ELSE IF \/ IsNonFunctionalHeader(section)
            \/ Contains(section, NonSpaceFunctionalRequirements)
    THEN "non_functional"
    ELSE "none"

\* the loop over the sections of _parse_requirements, from the lists so far
RECURSIVE ParseSections(_, _, _)

ParseSection(sections, kind, items, functional, non_functional) ==
    ParseSections(Tail(sections),
                  IF kind = "functional" THEN items ELSE functional,
                  IF kind = "non_functional" THEN items ELSE non_functional)

ParseSections(sections, functional, non_functional) ==
    IF sections = <<>>
    THEN [functional |-> functional, non_functional |-> non_functional,
          total_count |-> Len(functional) + Len(non_functional)]
    ELSE ParseSection(sections, SectionKind(Strip(sections[1])),
                      ExtractRequirementItems(Strip(sections[1]),
                          IF SectionKind(Strip(sections[1])) = "functional"
                          THEN FR ELSE NFR),
                      functional, non_functional)

ParseRequirements(text) == ParseSections(Split(text, <<"#", "#">>), <<>>, <<>>)

\* the loop over the lines of _alternative_parse; st holds its locals
RECURSIVE AlternativeLines(_, _)
AlternativeLines(lines, st) ==
    IF lines = <<>>
    THEN [functional |-> st.functional, non_functional |-> st.non_functional,
          total_count |-> Len(st.functional) + Len(st.non_functional)]
    ELSE LET line == Strip(lines[1])
             description == Strip(LStripChars(line, BulletChars))
             rest == Tail(lines)
         IN IF IsFunctionalHeader(line)
            THEN AlternativeLines(rest, [st EXCEPT !.inF = TRUE, !.inNF = FALSE])
            ELSE IF \/ Contains(line, NonFunctionalRequirements)
                    \/ Contains(line, NON_FUNCTIONAL_REQUIREMENTS)
            THEN AlternativeLines(rest, [st EXCEPT !.inF = FALSE, !.inNF = TRUE])
            ELSE IF StartsWith(line, <<"#", "#">>)
            THEN AlternativeLines(rest, [st EXCEPT !.inF = FALSE, !.inNF = FALSE])
            ELSE IF Len(line) > 20 /\ line[1] \in BulletChars
            THEN IF st.inF
                 THEN AlternativeLines(rest, [st EXCEPT
                          !.functional = Append(@,
                              [req_code |-> FR \o <<"-">> \o Pad03d(st.fr_count),
                               req_type |-> "Functional",
                               description |-> description]),
                          !.fr_count = @ + 1])
                 ELSE IF st.inNF
                 THEN AlternativeLines(rest, [st EXCEPT
                          !.non_functional = Append(@,
                              [req_code |-> NFR \o <<"-">> \o Pad03d(st.nfr_count),
                               req_type |-> "Non-Functional",
                               description |-> description]),
                          !.nfr_count = @ + 1])
                 ELSE AlternativeLines(rest, st)
            ELSE AlternativeLines(rest, st)

AlternativeParse(text) ==
    AlternativeLines(Split(text, <<"\n">>),
        [functional |-> <<>>, non_functional |-> <<>>, fr_count |-> 1,
         nfr_count |-> 1, inF |-> FALSE, inNF |-> FALSE])

(***************************************************************************)
(* criteria_generator.py: the parsers                                      *)
(***************************************************************************)

GIVEN == <<"G", "I", "V", "E", "N">>

WHEN == <<"W", "H", "E", "N">>

THEN_ == <<"T", "H", "E", "N">>

AND == <<"A", "N", "D">>

StarStar == <<"*", "*">>

ScenarioMarker == <<"*", "*", "S", "c", "e", "n", "a", "r", "i", "o", " ">>

\* the literal lit stands in s at index i, letter case ignored (re.IGNORECASE)
LitAtI(s, i, lit) ==
    /\ i >= 1
    /\ i + Len(lit) - 1 <= Len(s)
    /\ \A k \in 1..Len(lit) : LowerChar(s[i + k - 1]) = LowerChar(lit[k])

\* $ without re.MULTILINE: the end of the text, or before its last newline
AtDollar(s, e) == e = Len(s) + 1 \/ (e = Len(s) /\ s[e] = "\n")

\* -\s*(?:w1|w2|...) at index e, for the words ws
DashThenWord(s, e, words) ==
    /\ LitAt(s, e, <<"-">>)
    /\ \E w \in words : LitAtI(s, SkipWs(s, e + 1), w)

\* The lookaheads that end a clause; la names the pattern:
\*   "given":     (?=-\s*(?:AND|WHEN)|$)     "given_and": (?=-\s*WHEN)
\*   "when":      (?=-\s*(?:AND|THEN)|$)     "when_and":  (?=-\s*THEN)
\*   "then":      (?=-\s*(?:AND|\*\*)|$)     "then_and":  (?=-\s*\*\*|\Z)
LookaheadWords(la) ==
    CASE la = "given" -> {AND, WHEN}
      [] la = "given_and" -> {WHEN}
      [] la = "when" -> {AND, THEN_}
      [] la = "when_and" -> {THEN_}
      [] la = "then" -> {AND, StarStar}
      [] la = "then_and" -> {StarStar}

ClauseLookahead(s, e, la) ==
    \/ DashThenWord(s, e, LookaheadWords(la))
    \/ la \in {"given", "when", "then"} /\ AtDollar(s, e)
    \/ la = "then_and" /\ e = Len(s) + 1

\* the greatest element of a non-empty set of indices
Max(S) == CHOOSE x \in S : \A y \in S : x >= y

\* [ok, from, to): the span of a group, ok = FALSE when the pattern fails
NoSpan == [ok |-> FALSE, from |-> 0, to |-> 0]

\* the ends (.+?) may take when it starts at index p
ClauseEnds(s, p, la) == {e \in (p + 1)..(Len(s) + 1) : ClauseLookahead(s, e, la)}

\* \s+(.+?)(?=lookahead) from index w: the greedy \s+ is tried longest first
\* (starts holds the group starts that lead to a match), then (.+?) shortest
\* first.
ClauseSpanFrom(s, starts, la) ==
    IF starts = {} THEN NoSpan
    ELSE [ok |-> TRUE, from |-> Max(starts),
          to |-> Min(ClauseEnds(s, Max(starts), la))]

ClauseSpan(s, w, la) ==
    ClauseSpanFrom(s, {p \in (w + 1)..SkipWs(s, w) :
                          p <= Len(s) /\ ClauseEnds(s, p, la) # {}}, la)

\* -\s*KEY\s+(.+?)(?=...) tried at index i
PrimaryClauseAt(s, i, key, la) ==
    IF LitAt(s, i, <<"-">>) /\ LitAtI(s, SkipWs(s, i + 1), key)
    THEN ClauseSpan(s, SkipWs(s, i + 1) + Len(key), la)
    ELSE NoSpan

\* \s*AND\s+(.+?)(?=...) behind the dash at index a
AndSpan(s, a, la) == ClauseSpan(s, SkipWs(s, a + 1) + Len(AND), la)

\* (?:KEY.+?)-\s*AND\s+(.+?)(?=...) tried at index i: the lazy KEY.+? stops at
\* the first "-\s*AND" behind which the rest of the pattern matches (dashes)
ContinuationFrom(s, dashes, la) ==
    IF dashes = {} THEN NoSpan ELSE AndSpan(s, Min(dashes), la)

ContinuationClauseAt(s, i, key, la) ==
    IF LitAtI(s, i, key)
    THEN ContinuationFrom(s, {a \in (i + Len(key) + 1)..Len(s) :
                                 /\ DashThenWord(s, a, {AND})
                                 /\ AndSpan(s, a, la).ok}, la)
    ELSE NoSpan

\* one of the six clause patterns tried at index i
ClauseAt(s, i, key, la, continuation) ==
    IF continuation THEN ContinuationClauseAt(s, i, key, la)
    ELSE PrimaryClauseAt(s, i, key, la)

\* re.findall(pattern, content, re.IGNORECASE | re.DOTALL) from index i: the
\* leftmost match (starts holds the indices with a match), then the matches
\* behind its end
RECURSIVE FindClausesFrom(_, _, _, _, _)

FindClausesBehind(s, m, key, la, continuation) ==
    <<SubSeq(s, m.from, m.to - 1)>> \o FindClausesFrom(s, m.to, key, la, continuation)

FindClausesAt(s, starts, key, la, continuation) ==
    IF starts = {} THEN <<>>
    ELSE FindClausesBehind(s, ClauseAt(s, Min(starts), key, la, continuation),
                           key, la, continuation)

FindClausesFrom(s, i, key, la, continuation) ==
    FindClausesAt(s, {j \in i..Len(s) : ClauseAt(s, j, key, la, continuation).ok},
                  key, la, continuation)

\* [' '.join(g.strip().split()) for g in clauses]
NormalizeClauses(clauses) ==
    [k \in 1..Len(clauses) |-> CollapseWhitespace(Strip(clauses[k]))]

\* the clauses of the primary pattern, then those of the AND pattern
BothClauses(found) == found[FALSE] \o found[TRUE]

\* one field of the criteria: ' AND '.join of its normalized clauses
ClauseField(content, key, la, la_and) ==
    Join(NormalizeClauses(BothClauses(
             [continuation \in BOOLEAN |->
                 FindClausesFrom(content, 1, key,
                                 IF continuation THEN la_and ELSE la, continuation)])),
         <<" ">> \o AND \o <<" ">>)

\* A gate that would let a scenario without THEN through
GivenWhenGate(criteria) ==
    IF criteria.given # <<>> /\ criteria.when # <<>> THEN <<criteria>> ELSE <<>>

\* the gate that ends _extract_given_when_then: <<criteria>>, or <<>> for None
ReturnCriteria(criteria) ==
    IF criteria.given # <<>> /\ criteria.when # <<>> /\ criteria.then # <<>>
    THEN <<criteria>>
    ELSE <<>>

\* _extract_given_when_then
ExtractGivenWhenThen(scenario_name, content) ==
    ReturnCriteria([scenario_name |-> scenario_name,
                    given |-> ClauseField(content, GIVEN, "given", "given_and"),
                    when |-> ClauseField(content, WHEN, "when", "when_and"),
                    then |-> ClauseField(content, THEN_, "then", "then_and")])

NoScenario == [ok |-> FALSE, from |-> 0, to |-> 0, end |-> 0]

\* [^*]+ from index c + 1: the index of the first "*" behind c, or behind the text
NameEnd(s, c) == Min({j \in (c + 1)..(Len(s) + 1) : j = Len(s) + 1 \/ s[j] = "*"})

\* :([^*]+)\*\* with the colon at index c and the name ending before index n
ScenarioNamed(s, c, n) ==
    IF LitAt(s, c, <<":">>) /\ n > c + 1 /\ LitAt(s, n, StarStar)
    THEN [ok |-> TRUE, from |-> c + 1, to |-> n, end |-> n + 2]
    ELSE NoScenario

\* \*\*Scenario \d+:([^*]+)\*\* tried at index i; from..to-1 is the name,
\* end the index behind the match
ScenarioAt(s, i) ==
    IF /\ LitAt(s, i, ScenarioMarker)
       /\ SkipDigits(s, i + Len(ScenarioMarker)) > i + Len(ScenarioMarker)
    THEN ScenarioNamed(s, SkipDigits(s, i + Len(ScenarioMarker)),
                       NameEnd(s, SkipDigits(s, i + Len(ScenarioMarker))))
    ELSE NoScenario

\* re.split(scenario_pattern, text): the text before the first marker, then a
\* name and the text behind it for every marker
RECURSIVE SplitScenariosFrom(_, _)

SplitScenariosBehind(s, start, i, m) ==
    <<SubSeq(s, start, i - 1), SubSeq(s, m.from, m.to - 1)>>
        \o SplitScenariosFrom(s, m.end)

SplitScenariosAt(s, start, starts) ==
    IF starts = {} THEN <<SubSeq(s, start, Len(s))>>
    ELSE SplitScenariosBehind(s, start, Min(starts), ScenarioAt(s, Min(starts)))

SplitScenariosFrom(s, start) ==
    SplitScenariosAt(s, start, {j \in start..Len(s) : ScenarioAt(s, j).ok})

SplitScenarios(text) == SplitScenariosFrom(text, 1)

\* the loop of _parse_criteria over scenarios[i], scenarios[i + 1], i = 1, 3, ...
\* (Python indices; scenarios[i] is scenarios[i + 1] here)
RECURSIVE CriteriaFrom(_, _)
CriteriaFrom(scenarios, i) ==
    IF i >= Len(scenarios) THEN <<>>
    ELSE (IF i + 1 < Len(scenarios)
          THEN ExtractGivenWhenThen(Strip(scenarios[i + 1]), Strip(scenarios[i + 2]))
          ELSE <<>>)
             \o CriteriaFrom(scenarios, i + 2)

ParseCriteria(text) == CriteriaFrom(SplitScenarios(text), 1)

(***************************************************************************)
(* story_generator.py: the parsers                                         *)
(***************************************************************************)

StoryIdLabel == <<"*", "*", "S", "t", "o", "r", "y", " ", "I", "D", "*", "*", ":">>

TitleLabel == <<"*", "*", "T", "i", "t", "l", "e", "*", "*", ":">>

UserStoryLabel == <<"*", "*", "U", "s", "e", "r", " ", "S", "t", "o", "r", "y", "*", "*", ":">>

PriorityLabel == <<"*", "*", "P", "r", "i", "o", "r", "i", "t", "y", "*", "*", ":">>

StoryPointsLabel == <<"*", "*", "S", "t", "o", "r", "y", " ", "P", "o", "i", "n", "t", "s",
    "*", "*", ":">>

DependenciesLabel == <<"*", "*", "D", "e", "p", "e", "n", "d", "e", "n", "c", "i", "e", "s",
    "*", "*", ":">>

NotesLabel == <<"*", "*", "N", "o", "t", "e", "s", "*", "*", ":">>

High == <<"H", "i", "g", "h">>

Medium == <<"M", "e", "d", "i", "u", "m">>

Low == <<"L", "o", "w">>

None_ == <<"N", "o", "n", "e">>

US_ == <<"U", "S", "-">>

\* \n---+\n with the dashes ending before index e: the index behind the match
SeparatorEnd(s, e) == IF LitAt(s, e, <<"\n">>) THEN e + 1 ELSE 0

\* \n---+\n tried at index i: the index behind the match, 0 when it does not match
SeparatorAt(s, i) ==
    IF LitAt(s, i, <<"\n", "-", "-", "-">>)
    THEN SeparatorEnd(s, Min({j \in (i + 1)..(Len(s) + 1) : j > Len(s) \/ s[j] # "-"}))
    ELSE 0

\* re.split(r'\n---+\n', text): the blocks from index start on
RECURSIVE SplitBlocksFrom(_, _)

SplitBlocksAt(s, start, starts) ==
    IF starts = {} THEN <<SubSeq(s, start, Len(s))>>
    ELSE <<SubSeq(s, start, Min(starts) - 1)>>
            \o SplitBlocksFrom(s, SeparatorAt(s, Min(starts)))

SplitBlocksFrom(s, start) ==
    SplitBlocksAt(s, start, {j \in start..Len(s) : SeparatorAt(s, j) > 0})

\* The lookaheads that end a field value; la names the pattern:
\*   "line": (?=\n\*\*|\n|$)        (Title, Dependencies)
\*   "para": (?=\n\*\*|\n---|\Z)    (User Story, Notes)
FieldLookahead(s, e, la) ==
    CASE la = "line" -> LitAt(s, e, <<"\n">>) \/ AtDollar(s, e)
      [] la = "para" -> \/ LitAt(s, e, <<"\n", "*", "*">>)
                        \/ LitAt(s, e, <<"\n", "-", "-", "-">>)
                        \/ e = Len(s) + 1

\* label:\s*(.+?)(?=lookahead) tried at index i, letter case of the label
\* ignored.  The greedy \s* is tried longest first (starts holds the group
\* starts it may leave), then (.+?) shortest first; without re.DOTALL
\* (la = "line") the dot matches no newline.
FieldSpanFrom(s, starts, la) ==
    IF starts = {} THEN NoSpan
    ELSE [ok |-> TRUE, from |-> Max(starts),
          to |-> Min({e \in (Max(starts) + 1)..(Len(s) + 1) : FieldLookahead(s, e, la)})]

FieldSpanAt(s, i, label, la) ==
    IF LitAtI(s, i, label)
    THEN FieldSpanFrom(s, {p \in (i + Len(label))..SkipWs(s, i + Len(label)) :
                              p <= Len(s) /\ (la = "line" => s[p] # "\n")}, la)
    ELSE NoSpan

\* group 1 of a match, as <<group>>
Group(s, m) == <<SubSeq(s, m.from, m.to - 1)>>

\* re.search of a field pattern: group 1 of the leftmost match, as <<group>>,
\* or <<>> when the pattern matches nowhere (starts holds the indices with a match)
FieldSearchIn(s, starts, label, la) ==
    IF starts = {} THEN <<>> ELSE Group(s, FieldSpanAt(s, Min(starts), label, la))

FieldSearch(s, label, la) ==
    FieldSearchIn(s, {j \in 1..Len(s) : FieldSpanAt(s, j, label, la).ok}, label, la)

\* (w1|w2|...) tried at index p, letter case ignored; hit holds the alternatives
\* that stand there, the first of them matches
WordSpanFrom(s, p, hit, words) ==
    IF hit = {} THEN NoSpan
    ELSE [ok |-> TRUE, from |-> p, to |-> p + Len(words[Min(hit)])]

\* label:\s*(w1|w2|...) tried at index i, letter case ignored: the span of the word
WordSpanAt(s, i, label, words) ==
    IF LitAtI(s, i, label)
    THEN WordSpanFrom(s, SkipWs(s, i + Len(label)),
                      {w \in 1..Len(words) :
                          LitAtI(s, SkipWs(s, i + Len(label)), words[w])}, words)
    ELSE NoSpan

WordSearchIn(s, starts, label, words) ==
    IF starts = {} THEN <<>> ELSE Group(s, WordSpanAt(s, Min(starts), label, words))

WordSearch(s, label, words) ==
    WordSearchIn(s, {j \in 1..Len(s) : WordSpanAt(s, j, label, words).ok}, label, words)

\* (prefix\d+) tried at index p, letter case ignored
NumberSpanFrom(s, p, prefix) ==
    IF LitAtI(s, p, prefix) /\ SkipDigits(s, p + Len(prefix)) > p + Len(prefix)
    THEN [ok |-> TRUE, from |-> p, to |-> SkipDigits(s, p + Len(prefix))]
    ELSE NoSpan

\* label:\s*(prefix\d+) tried at index i, letter case ignored
NumberSpanAt(s, i, label, prefix) ==
    IF LitAtI(s, i, label)
    THEN NumberSpanFrom(s, SkipWs(s, i + Len(label)), prefix)
    ELSE NoSpan

NumberSearchIn(s, starts, label, prefix) ==
    IF starts = {} THEN <<>> ELSE Group(s, NumberSpanAt(s, Min(starts), label, prefix))

NumberSearch(s, label, prefix) ==
    NumberSearchIn(s, {j \in 1..Len(s) : NumberSpanAt(s, j, label, prefix).ok},
                   label, prefix)

\* str.upper() of one character
UpperChar(c) ==
    IF \E k \in 1..26 : LowerChars[k] = c
    THEN UpperChars[CHOOSE k \in 1..26 : LowerChars[k] = c]
    ELSE c

\* str.capitalize()
Capitalize(s) ==
    [k \in 1..Len(s) |-> IF k = 1 THEN UpperChar(s[k]) ELSE LowerChar(s[k])]

\* int(digits)
RECURSIVE ParseInt(_)
ParseInt(digits) ==
    IF digits = <<>> THEN 0
    ELSE 10 * ParseInt(SubSeq(digits, 1, Len(digits) - 1))
           + ((CHOOSE k \in 1..10 : DigitChars[k] = digits[Len(digits)]) - 1)

\* A story that would keep the priority as the response wrote it
PriorityAsWritten(story_id_match, title_match, user_story_match, priority_match, points_match, deps_match, notes_match) ==
    [story_code |-> IF story_id_match # <<>> THEN story_id_match[1] ELSE <<>>,
     title |-> IF title_match # <<>> THEN Strip(title_match[1]) ELSE <<>>,
     user_story |-> IF user_story_match # <<>>
                    THEN CollapseWhitespace(Strip(user_story_match[1])) ELSE <<>>,
     priority |-> IF priority_match # <<>> THEN priority_match[1] ELSE Medium,
     story_points |-> IF points_match # <<>> THEN ParseInt(points_match[1]) ELSE 0,
     dependencies |-> IF deps_match # <<>> THEN Strip(deps_match[1]) ELSE None_,
     notes |-> IF notes_match # <<>>
               THEN CollapseWhitespace(Strip(notes_match[1])) ELSE <<>>]

\* the story of _extract_story_fields from the matches of its seven searches
StoryFields(story_id_match, title_match, user_story_match, priority_match, points_match, deps_match, notes_match) ==
    [story_code |-> IF story_id_match # <<>> THEN story_id_match[1] ELSE <<>>,
     title |-> IF title_match # <<>> THEN Strip(title_match[1]) ELSE <<>>,
     user_story |-> IF user_story_match # <<>>
                    THEN CollapseWhitespace(Strip(user_story_match[1])) ELSE <<>>,
     priority |-> IF priority_match # <<>>
                  THEN Capitalize(priority_match[1]) ELSE Medium,
     story_points |-> IF points_match # <<>> THEN ParseInt(points_match[1]) ELSE 0,
     dependencies |-> IF deps_match # <<>> THEN Strip(deps_match[1]) ELSE None_,
     notes |-> IF notes_match # <<>>
               THEN CollapseWhitespace(Strip(notes_match[1])) ELSE <<>>]

\* _extract_story_fields
ExtractStoryFields(block) ==
    StoryFields(NumberSearch(block, StoryIdLabel, US_),
                FieldSearch(block, TitleLabel, "line"),
                FieldSearch(block, UserStoryLabel, "para"),
                WordSearch(block, PriorityLabel, <<High, Medium, Low>>),
                NumberSearch(block, StoryPointsLabel, <<>>),
                FieldSearch(block, DependenciesLabel, "line"),
                FieldSearch(block, NotesLabel, "para"))

\* A loop body that would keep a story whether or not it has a code
KeepWithoutCode(block, story) ==
    IF Len(block) < 50 THEN <<>> ELSE <<story>>

\* A loop body that would read blocks of any length
KeepShortBlocks(block, story) ==
    IF story.story_code = <<>> THEN <<>> ELSE <<story>>

\* one block of the loop of _parse_user_stories, story its extracted fields
StoryOf(block, story) ==
    IF Len(block) < 50 \/ story.story_code = <<>> THEN <<>> ELSE <<story>>

\* the loop of _parse_user_stories over the blocks
RECURSIVE StoriesOf(_)
StoriesOf(story_blocks) ==
    IF story_blocks = <<>> THEN <<>>
    ELSE StoryOf(Strip(story_blocks[1]), ExtractStoryFields(Strip(story_blocks[1])))
            \o StoriesOf(Tail(story_blocks))

ParseUserStories(text) == StoriesOf(SplitBlocksFrom(text, 1))

(***************************************************************************)
(* The formatters                                                          *)
(***************************************************************************)

\* f"**{req['req_code']}**: {req['description']}\n"
RequirementEntry(req) ==
    <<"*", "*">> \o req.req_code \o <<"*", "*", ":", " ">> \o req.description \o <<"\n">>

\* the output list of one section of format_for_display: nothing for an empty
\* list, else the heading and an entry for each requirement
DisplaySection(heading, reqs) ==
    IF reqs = <<>> THEN <<>>
    ELSE <<heading>> \o [k \in 1..Len(reqs) |-> RequirementEntry(reqs[k])]

\* the two summary elements of format_for_display
DisplaySummary(requirements) ==
    <<<<"\n", "-", "-", "-", "\n">> \o <<"*", "*", "T", "o", "t", "a", "l", " ", "R", "e", "q", "u", "i", "r", "e", "m", "e", "n", "t", "s", "*", "*", ":", " ">> \o Decimal(requirements.total_count) \o <<" ">>,
      <<"(">> \o Decimal(Len(requirements.functional)) \o <<" ", "F", "u", "n", "c", "t", "i", "o", "n", "a", "l", ",", " ">>
          \o Decimal(Len(requirements.non_functional)) \o <<" ", "N", "o", "n", "-", "F", "u", "n", "c", "t", "i", "o", "n", "a", "l", ")">>>>

\* RequirementsExtractor.format_for_display
FormatForDisplay(requirements) ==
    Join(DisplaySection((<<"#", "#", " ", "CLIPBOARD", " ">> \o FunctionalRequirements \o <<"\n">>), requirements.functional)
            \o DisplaySection((<<"\n", "#", "#", " ", "GEAR", "VS16", " ">> \o NonFunctionalRequirements \o <<"\n">>), requirements.non_functional)
            \o DisplaySummary(requirements),
         <<"\n">>)

CsvHeader == <<"S", "u", "m", "m", "a", "r", "y", ",", "D", "e", "s", "c", "r", "i", "p", "t", "i", "o", "n", ",", "P", "r", "i", "o", "r", "i", "t", "y", ",", "S", "t", "o", "r", "y", " ", "P", "o", "i", "n", "t", "s", ",", "I", "s", "s", "u", "e", " ", "T", "y", "p", "e">>

\* f'"{summary}","{description}",{priority},{points},Story'
JiraLine(story) ==
    <<"\"">> \o story.title \o <<"\"", ",", "\"">> \o story.user_story \o <<"\"", ",">>
        \o story.priority \o <<",">> \o Decimal(story.story_points) \o <<",", "S", "t", "o", "r", "y">>

\* A formatter that would leave out the stories without a title
JiraSkipsUntitled(stories_data) ==
    Join(<<CsvHeader>> \o [k \in 1..Len(SelectSeq(stories_data.stories,
                                                   LAMBDA story : story.title # <<>>)) |->
                              JiraLine(SelectSeq(stories_data.stories,
                                                 LAMBDA story : story.title # <<>>)[k])],
         <<"\n">>)

\* UserStoryGenerator.format_for_jira
FormatForJira(stories_data) ==
    Join(<<CsvHeader>> \o [k \in 1..Len(stories_data.stories) |->
                              JiraLine(stories_data.stories[k])],
         <<"\n">>)

\* the default of the parameter feature_name
DefaultFeatureName == <<"U", "s", "e", "r", " ", "S", "t", "o", "r", "y">>

ScenarioPrefix == <<" ", " ", "S", "c", "e", "n", "a", "r", "i", "o", ":", " ">>

GivenPrefix == <<" ", " ", " ", " ", "G", "i", "v", "e", "n", " ">>

WhenPrefix == <<" ", " ", " ", " ", "W", "h", "e", "n", " ">>

ThenPrefix == <<" ", " ", " ", " ", "T", "h", "e", "n", " ">>

\* the five elements format_for_gherkin appends for one record
GherkinLines(criteria) ==
    <<ScenarioPrefix \o criteria.scenario_name,
      GivenPrefix \o criteria.given,
      WhenPrefix \o criteria.when,
      ThenPrefix \o criteria.then,
      <<>>>>

\* AcceptanceCriteriaGenerator.format_for_gherkin
FormatForGherkin(criteria_data, feature_name) ==
    Join(<<<<"F", "e", "a", "t", "u", "r", "e", ":", " ">> \o feature_name \o <<"\n">>>>
            \o [i \in 1..(5 * Len(criteria_data.criteria)) |->
                   GherkinLines(criteria_data.criteria[((i - 1) \div 5) + 1])[((i - 1) % 5) + 1]],
         <<"\n">>)

(***************************************************************************)
(* The calls: RequirementsExtractor.extract, UserStoryGenerator.generate   *)
(* and AcceptanceCriteriaGenerator.generate, each against a generation     *)
(* capability that answers every attempt with a text or with a failure.    *)
(***************************************************************************)

max_retries == 3

retry_delay == 2

Overloaded == <<"o", "v", "e", "r", "l", "o", "a", "d", "e", "d">>

\* "503" in error_msg or "overloaded" in error_msg.lower()
IsOverloadError(error_msg) ==
    \/ Contains(error_msg, <<"5", "0", "3">>)
    \/ Contains(Lower(error_msg), Overloaded)

\* A handler that would wait and try again after any failure
RetryAnyFailure(attempt, error_msg) ==
    IF attempt < max_retries - 1
    THEN [do |-> "continue", wait_time |-> retry_delay * (attempt + 1),
          error |-> "none"]
    ELSE [do |-> "raise", wait_time |-> 0, error |-> "overloaded"]

\* A handler that would wait and try again after an overload, whatever the attempt
RetryOverload(attempt, error_msg) ==
    IF IsOverloadError(error_msg)
    THEN [do |-> "continue", wait_time |-> retry_delay * (attempt + 1),
          error |-> "none"]
    ELSE [do |-> "raise", wait_time |-> 0, error |-> "generation_error"]

\* A handler that would wait the same time before every new attempt
ConstantBackoff(attempt, error_msg) ==
    IF IsOverloadError(error_msg)
    THEN IF attempt < max_retries - 1
         THEN [do |-> "continue", wait_time |-> retry_delay, error |-> "none"]
         ELSE [do |-> "raise", wait_time |-> 0, error |-> "overloaded"]
    ELSE [do |-> "raise", wait_time |-> 0, error |-> "extraction_error"]

\* The except branch of extract for the failure of attempt number attempt
\* (0, 1, ...): sleep and continue, or raise.
ExtractOnFailure(attempt, error_msg) ==
    IF IsOverloadError(error_msg)
    THEN IF attempt < max_retries - 1
         THEN [do |-> "continue", wait_time |-> retry_delay * (attempt + 1),
               error |-> "none"]
         ELSE [do |-> "raise", wait_time |-> 0, error |-> "overloaded"]
    ELSE [do |-> "raise", wait_time |-> 0, error |-> "extraction_error"]

\* The except branch of the two generate methods: wrap and raise.
GenerateOnFailure(attempt, error_msg) ==
    [do |-> "raise", wait_time |-> 0, error |-> "generation_error"]

\* A try branch that would return the structured parse whatever it counts
StructuredOnly(parsed, raw_output) ==
    [requirements |-> [functional |-> parsed.functional,
                       non_functional |-> parsed.non_functional,
                       total_count |-> parsed.total_count,
                       raw_output |-> raw_output],
     alternative |-> FALSE]

\* The try branch of extract behind the generation call, parsed the result of
\* the structured parse: raw_output added to it, or the alternative parse in
\* its place when the structured parse counts nothing.
ExtractResult(parsed, raw_output) ==
    IF parsed.total_count = 0
    THEN [requirements |-> AlternativeParse(raw_output), alternative |-> TRUE]
    ELSE [requirements |-> [functional |-> parsed.functional,
                            non_functional |-> parsed.non_functional,
                            total_count |-> parsed.total_count,
                            raw_output |-> raw_output],
          alternative |-> FALSE]

ExtractOutcome(raw_output) == ExtractResult(ParseRequirements(raw_output), raw_output)

\* The try branch of UserStoryGenerator.generate behind the generation call
StoriesResult(stories, raw_output) ==
    [stories |-> stories, raw_output |-> raw_output, total_count |-> Len(stories)]

StoriesOutcome(raw_output) == StoriesResult(ParseUserStories(raw_output), raw_output)

\* The try branch of AcceptanceCriteriaGenerator.generate behind the call
CriteriaResult(criteria, raw_output) ==
    [criteria |-> criteria, raw_output |-> raw_output,
     total_scenarios |-> Len(criteria)]

CriteriaOutcome(raw_output) == CriteriaResult(ParseCriteria(raw_output), raw_output)

(***************************************************************************)
(* The answers of the generation capability                                *)
(***************************************************************************)

\* the most lines of one generated text
MaxLines == 4

LineHdrF == <<"#", "#", " ", "F", "u", "n", "c", "t", "i", "o", "n", "a", "l", " ", "R", "e",
    "q", "u", "i", "r", "e", "m", "e", "n", "t", "s">>

LineHdrNF == <<"#", "#", " ", "N", "o", "n", "-", "F", "u", "n", "c", "t", "i", "o", "n", "a",
    "l", " ", "R", "e", "q", "u", "i", "r", "e", "m", "e", "n", "t", "s">>

LineFR1 == <<"-", " ", "F", "R", "-", "0", "0", "1", ":", " ", "U", "s", "e", "r", " ", "c",
    "a", "n", " ", "l", "o", "g", " ", "i", "n">>

LineNFR1 == <<"-", " ", "N", "F", "R", "-", "0", "0", "1", ":", " ", "P", "a", "g", "e", " ",
    "l", "o", "a", "d", "s", " ", "f", "a", "s", "t">>

LineFR7 == <<"F", "R", "7", ":", " ", "M", "u", "s", "t", " ", "s", "u", "p", "p", "o", "r",
    "t", " ", "S", "S", "O">>

LineBullet == <<"BULLET", " ", "U", "s", "e", "r", "s", " ", "s", "i", "g", "n", " ", "i", "n",
    " ", "b", "y", " ", "e", "m", "a", "i", "l">>

LineRule == <<"-", "-", "-", "-", "-", "-", "-", "-", "-", "-", "-", "-", "-", "-", "-", " ",
    "L", "o", "g", "i", "n">>

LineNotes == <<"#", "#", " ", "N", "o", "t", "e", "s">>

LineWide == <<"*", " ", "E", "x", "p", "o", "r", "t", " ", " ", "r", "e", "p", "o", "r", "t",
    "s", " ", "a", "s", " ", "P", "D", "F", " ", "f", "i", "l", "e", "s">>

LineScenario1 == <<"*", "*", "S", "c", "e", "n", "a", "r", "i", "o", " ", "1", ":", " ", "L",
    "o", "g", "i", "n", "*", "*">>

LineGiven == <<"-", " ", "G", "I", "V", "E", "N", " ", "a", " ", "u", "s", "e", "r">>

LineGivenAuth == <<"-", " ", "G", "I", "V", "E", "N", " ", "u", "s", "e", "r", " ", "i", "s",
    " ", "a", "u", "t", "h", "e", "n", "t", "i", "c", "a", "t", "e", "d">>

LineAnd == <<"-", " ", "A", "N", "D", " ", "a", "n", " ", "a", "c", "c", "o", "u", "n", "t">>

LineWhen == <<"-", " ", "W", "H", "E", "N", " ", "t", "h", "e", "y", " ", "l", "o", "g", " ",
    "i", "n">>

LineThen == <<"-", " ", "T", "H", "E", "N", " ", "t", "h", "e", "y", " ", "s", "e", "e", " ",
    "h", "o", "m", "e">>

LineGivenWhenThen == <<"-", " ", "G", "I", "V", "E", "N", " ", "a", " ", "c", "a", "r", "t",
    " ", "-", " ", "W", "H", "E", "N", " ", "p", "a", "i", "d", " ", "-", " ", "T", "H", "E",
    "N", " ", "d", "o", "n", "e">>

LineStoryId == <<"*", "*", "S", "t", "o", "r", "y", " ", "I", "D", "*", "*", ":", " ", "U",
    "S", "-", "0", "0", "1">>

LineUserStory == <<"*", "*", "U", "s", "e", "r", " ", "S", "t", "o", "r", "y", "*", "*", ":",
    " ", "A", "s", " ", "a", " ", "u", "s", "e", "r", ",", " ", "I", " ", "w", "a", "n", "t",
    " ", "t", "o", " ", "l", "o", "g", " ", "i", "n", " ", "s", "o", " ", "t", "h", "a", "t",
    " ", "I", " ", "c", "a", "n", " ", "w", "o", "r", "k">>

LineWant == <<"*", "*", "U", "s", "e", "r", " ", "S", "t", "o", "r", "y", "*", "*", ":", " ",
    "A", "s", " ", "a", " ", "u", "s", "e", "r", ",", " ", "I", " ", "w", "a", "n", "t", " ",
    "t", "o", " ", "l", "o", "g", " ", "i", "n">>

LineSeparator == <<"-", "-", "-">>

LineTitle == <<"*", "*", "T", "i", "t", "l", "e", "*", "*", ":", " ", "L", "o", "g", "i", "n">>

LineStoryIdLower == <<"*", "*", "s", "t", "o", "r", "y", " ", "i", "d", "*", "*", ":", " ",
    "u", "s", "-", "0", "0", "2">>

LineShort == <<"*", "*", "S", "t", "o", "r", "y", " ", "I", "D", "*", "*", ":", " ", "U", "S",
    "-", "0", "0", "2", " ", "(", "p", "e", "n", "d", "i", "n", "g", ")">>

LinePriorityUpper == <<"*", "*", "P", "r", "i", "o", "r", "i", "t", "y", "*", "*", ":", " ",
    "H", "I", "G", "H">>

LinePriorityOther == <<"*", "*", "P", "r", "i", "o", "r", "i", "t", "y", "*", "*", ":", " ",
    "U", "r", "g", "e", "n", "t">>

Msg503 == <<"5", "0", "3", " ", "U", "N", "A", "V", "A", "I", "L", "A", "B", "L", "E">>

MsgOverloaded == <<"T", "h", "e", " ", "m", "o", "d", "e", "l", " ", "i", "s", " ", "o", "v",
    "e", "r", "l", "o", "a", "d", "e", "d">>

MsgOVERLOADED == <<"M", "o", "d", "e", "l", " ", "O", "V", "E", "R", "L", "O", "A", "D", "E",
    "D">>

Msg500 == <<"5", "0", "0", " ", "I", "n", "t", "e", "r", "n", "a", "l", " ", "e", "r", "r",
    "o", "r">>

\* the lines of the texts of each specification
RequirementLines == {LineHdrF, LineHdrNF, LineFR1, LineNFR1, LineFR7, LineBullet}

AlternativeLineSet == {LineHdrF, LineHdrNF, LineNotes, LineBullet, LineRule, LineWide}

BasicRequirementLines == {LineHdrF, LineFR1, LineBullet}

CriteriaLines == {LineScenario1, LineGiven, LineWhen, LineThen, LineGivenWhenThen}

BasicCriteriaLines == {LineScenario1, LineGivenWhenThen, LineAnd}

\* a scenario marker with the GIVEN line under it, as one opening of two lines
ScenarioGiven == LineScenario1 \o <<"\n">> \o LineGiven

ScenarioGivenAuth == LineScenario1 \o <<"\n">> \o LineGivenAuth

ClauseLines == {ScenarioGiven, ScenarioGivenAuth, LineAnd, LineWhen, LineThen}

StoryLines == {LineStoryId, LineUserStory, LineSeparator, LineShort}

StoryFieldLines == {LineStoryId, LineWant, LinePriorityUpper, LinePriorityOther}

StoryCodeLines == {LineStoryId, LineStoryIdLower, LineWant}

BasicStoryLines == {LineStoryId, LineUserStory, LineSeparator}

\* the calls that run at the same time
NumCalls == 2

\* the answers to the calls that run at the same time
StoriesAndStub == LineStoryId \o <<"\n">> \o LineWant \o <<"\n">> \o LineSeparator
                     \o <<"\n">> \o LineShort

StoryLower == LineStoryIdLower \o <<"\n">> \o LineWant

SectionOfCodes == LineHdrF \o <<"\n">> \o LineFR1

SectionOfBullets == LineHdrF \o <<"\n">> \o LineBullet

\* a story block with a title, as one opening of three lines
StoryTitled == LineStoryId \o <<"\n">> \o LineTitle \o <<"\n">> \o LineWant

FormatStoryLines == {StoryTitled, StoryLower, LineSeparator}

LineTitleQuoted == <<"*", "*", "T", "i", "t", "l", "e", "*", "*", ":", " ", "T", "h", "e", " ", "\"", "L", "o", "g", "i", "n", "\"", " ", "p", "a", "g", "e">>

\* a story block whose title holds two double quotes
StoryQuoted == LineStoryId \o <<"\n">> \o LineTitleQuoted \o <<"\n">> \o LineWant

CsvStoryLines == {StoryTitled, StoryQuoted, LineSeparator}

LineHdrLower == <<"#", "#", " ", "f", "u", "n", "c", "t", "i", "o", "n", "a", "l", " ", "r",
    "e", "q", "u", "i", "r", "e", "m", "e", "n", "t", "s">>

HeaderLines == {LineHdrF, LineHdrLower, LineFR1, LineBullet}

LinePlain == <<"F", "R", "-", "0", "0", "2", ":", " ", "A", "d", "m", "i", "n", " ", "c", "a",
    "n", " ", "l", "o", "g", " ", "o", "u", "t">>

LineBold == <<"*", "*", "F", "R", "-", "0", "0", "3", "*", "*", ":", " ", "A", "u", "d", "i",
    "t", " ", "i", "s", " ", "k", "e", "p", "t", " ", "o", "n">>

PatternLines == {LineHdrF, LineFR1, LinePlain, LineBold, LineFR7}

LineAndCart == <<"-", " ", "A", "N", "D", " ", "a", " ", "c", "a", "r", "t">>

\* the WHEN line with the THEN line under it
WhenThen == LineWhen \o <<"\n">> \o LineThen

ContinuationLines == {ScenarioGiven, LineAnd, LineAndCart, WhenThen}

LineIndented == <<" ", " ", "F", "R", "-", "7", ":", " ", "M", "u", "s", "t", " ", "s", "u",
    "p", "p", "o", "r", "t", " ", "S", "S", "O">>

LineNumbered == <<"1", ".", " ", "F", "R", "-", "8", ":", " ", "K", "e", "e", "p", "s", " ",
    "a", "n", " ", "a", "u", "d", "i", "t", " ", "l", "o", "g">>

FallbackLines == {LineHdrF, LineIndented, LineNumbered, LineFR1}

\* the most characters of a matched description
MaxChars == 4

DescriptionChars == {"a", "b", " ", "\t", "\n"}

\* the texts a pattern's second group can hold
Descriptions == UNION {[1..n -> DescriptionChars] : n \in 0..MaxChars}

ConcurrentTexts(p) ==
    IF p = "extract" THEN {SectionOfCodes, SectionOfBullets}
    ELSE {StoriesAndStub, StoryLower}

\* the texts of one to MaxLines lines, each line one of lines
Texts(lines) ==
    {Join(f, <<"\n">>) : f \in UNION {[1..n -> lines] : n \in 1..MaxLines}}

\* the messages of the failures of a generation call
ErrorMessages == {Msg503, MsgOverloaded, MsgOVERLOADED, Msg500}

(***************************************************************************)
(* The Database of core/database.py.  A table is the set of its rows, a    *)
(* row the record of its key, of the key of its parent and of one column   *)
(* of its own; sequence holds the AUTOINCREMENT counter of each table, so  *)
(* a key is never given twice.  The foreign keys are declared and not      *)
(* enforced: a row may name a parent that is not there.                    *)
(***************************************************************************)

\* the most rows the operations insert
MaxRows == 6

\* the keys a caller passes for the parent of the rows it saves
ParentIds == {1, 2}

\* the rows inserted so far, deleted or not
RowCount(d) ==
    d.sequence.projects + d.sequence.inputs + d.sequence.requirements
        + d.sequence.user_stories + d.sequence.acceptance_criteria

CreateProject(d) ==
    [d EXCEPT !.projects = @ \cup {[project_id |-> d.sequence.projects + 1]},
              !.sequence.projects = @ + 1]

SaveInput(d, project_id, input_type) ==
    [d EXCEPT !.inputs = @ \cup {[input_id |-> d.sequence.inputs + 1,
                                  project_id |-> project_id,
                                  input_type |-> input_type]},
              !.sequence.inputs = @ + 1]

SaveRequirements(d, input_id, requirements_list) ==
    [d EXCEPT !.requirements =
                  @ \cup {[req_id |-> d.sequence.requirements + k,
                           input_id |-> input_id,
                           req_code |-> requirements_list[k].req_code] :
                              k \in 1..Len(requirements_list)},
              !.sequence.requirements = @ + Len(requirements_list)]

\* the rows of get_requirements, which the callers count and read
GetRequirements(d, input_id) == {req \in d.requirements : req.input_id = input_id}

SaveUserStories(d, req_id, stories_list) ==
    [d EXCEPT !.user_stories =
                  @ \cup {[story_id |-> d.sequence.user_stories + k,
                           req_id |-> req_id,
                           story_code |-> stories_list[k].story_code] :
                              k \in 1..Len(stories_list)},
              !.sequence.user_stories = @ + Len(stories_list)]

SaveAcceptanceCriteria(d, story_id, criteria_list) ==
    [d EXCEPT !.acceptance_criteria =
                  @ \cup {[criteria_id |-> d.sequence.acceptance_criteria + k,
                           story_id |-> story_id,
                           scenario_name |-> criteria_list[k].scenario_name] :
                              k \in 1..Len(criteria_list)},
              !.sequence.acceptance_criteria = @ + Len(criteria_list)]

\* SELECT input_id FROM inputs WHERE project_id = ?
SelectInputIds(d, project_id) ==
    {input.input_id : input \in {i \in d.inputs : i.project_id = project_id}}

\* SELECT req_id FROM requirements WHERE input_id IN (...)
SelectReqIds(d, project_id) ==
    {req.req_id :
        req \in {r \in d.requirements : r.input_id \in SelectInputIds(d, project_id)}}

\* SELECT story_id FROM user_stories WHERE req_id IN (...)
SelectStoryIds(d, project_id) ==
    {story.story_id :
        story \in {s \in d.user_stories : s.req_id \in SelectReqIds(d, project_id)}}

\* the five DELETE statements of delete_project, each on the tables as the
\* statements before it left them
DeleteCriteria(d, project_id) ==
    [d EXCEPT !.acceptance_criteria =
                  {c \in @ : c.story_id \notin SelectStoryIds(d, project_id)}]

DeleteStories(d, project_id) ==
    [d EXCEPT !.user_stories = {s \in @ : s.req_id \notin SelectReqIds(d, project_id)}]

DeleteRequirements(d, project_id) ==
    [d EXCEPT !.requirements =
                  {r \in @ : r.input_id \notin SelectInputIds(d, project_id)}]

DeleteInputs(d, project_id) ==
    [d EXCEPT !.inputs = {i \in @ : i.project_id # project_id}]

DeleteProjectRow(d, project_id) ==
    [d EXCEPT !.projects = {p \in @ : p.project_id # project_id}]

\* A delete_project that would run its statements from the project down
DeleteParentsFirst(d, project_id) ==
    DeleteCriteria(
        DeleteStories(
            DeleteRequirements(
                DeleteInputs(DeleteProjectRow(d, project_id), project_id),
                project_id),
            project_id),
        project_id)

\* delete_project: the statements in the order of the code, one commit
DeleteProject(d, project_id) ==
    DeleteProjectRow(
        DeleteInputs(
            DeleteRequirements(
                DeleteStories(DeleteCriteria(d, project_id), project_id),
                project_id),
            project_id),
        project_id)

\* the lists the callers save, of the keys the parsers return
RequirementLists ==
    {<<[req_code |-> <<"F", "R", "-", "0", "0", "1">>]>>,
     <<[req_code |-> <<"F", "R", "-", "0", "0", "1">>],
       [req_code |-> <<"N", "F", "R", "-", "0", "0", "1">>]>>}

StoryLists == {<<[story_code |-> <<"U", "S", "-", "0", "0", "1">>]>>}

CriteriaLists == {<<[scenario_name |-> <<"L", "o", "g", "i", "n">>]>>}

(***************************************************************************)
(* The routes of api/routes: input.py, requirements.py and stories.py      *)
(***************************************************************************)

\* the most rows the requests insert
MaxSaved == 3

min_length == 50

\* DocumentParser.validate_text, its first component
ValidateText(text) ==
    /\ text # <<>>
    /\ Strip(text) # <<>>
    /\ Len(Strip(text)) >= min_length

\* file_name.lower().split('.')[-1]
Extension(file_name) ==
    Split(Lower(file_name), <<".">>)[Len(Split(Lower(file_name), <<".">>))]

\* DocumentParser.parse_document on a file whose reader extracts file.text:
\* the stripped text, or the ValueError of an unsupported extension
ParseDocument(file) ==
    IF Extension(file.file_name) \in {<<"t", "x", "t">>, <<"d", "o", "c", "x">>,
                                      <<"p", "d", "f">>}
    THEN [raised |-> FALSE, text |-> Strip(file.text)]
    ELSE [raised |-> TRUE, text |-> <<>>]

\* raise HTTPException(status_code=...)
HttpException(status_code) == [http |-> TRUE, status_code |-> status_code]

\* any other exception
OtherException == [http |-> FALSE, status_code |-> 0]

\* except Exception as e: raise HTTPException(status_code=500, detail=str(e)),
\* the only handler of the try blocks of input.py and stories.py
ExceptException(raised) == 500

\* except HTTPException: raise, ahead of except Exception (requirements.py)
ExceptHTTPException(raised) ==
    IF raised.http THEN raised.status_code ELSE ExceptException(raised)

\* the answer of a route: its status, the status of the HTTPException its try
\* block raised (0 if none) and the key of the input it saved (0 if none)
Answer(route, status_code, raised, input_id) ==
    [route |-> route, status_code |-> status_code, raised |-> raised,
     input_id |-> input_id]

\* extract from its loop on, attempt k answered by answers[k + 1]
RECURSIVE ExtractLoop(_, _, _)
ExtractLoop(answers, k, slept) ==
    IF k >= max_retries
    THEN [returned |-> FALSE, raw_output |-> <<>>, error |-> "failed_after_retries",
          calls |-> k, waits |-> slept]
    ELSE IF answers[k + 1].ok
         THEN [returned |-> TRUE, raw_output |-> answers[k + 1].text, error |-> "none",
               calls |-> k + 1, waits |-> slept]
         ELSE IF ExtractOnFailure(k, answers[k + 1].text).do = "continue"
              THEN ExtractLoop(answers, k + 1,
                               Append(slept, ExtractOnFailure(k, answers[k + 1].text).wait_time))
              ELSE [returned |-> FALSE, raw_output |-> <<>>,
                    error |-> ExtractOnFailure(k, answers[k + 1].text).error,
                    calls |-> k + 1, waits |-> slept]

\* the texts of the requests: none, blanks, a line under min_length and a
\* section over it
RequestTexts == {<<>>, <<" ", "\n">>, LineFR1, SectionOfCodes}

\* the files of the uploads
Files ==
    {[file_name |-> <<"N", "o", "t", "e", "s", ".", "T", "X", "T">>, text |-> SectionOfCodes],
     [file_name |-> <<"N", "o", "t", "e", "s", ".", "T", "X", "T">>, text |-> LineFR1],
     [file_name |-> <<"n", "o", "t", "e", "s", ".", "e", "x", "e">>, text |-> SectionOfCodes]}

\* what the generation capability answers to one attempt
Answers ==
    {[ok |-> TRUE, text |-> SectionOfCodes], [ok |-> TRUE, text |-> <<>>],
     [ok |-> FALSE, text |-> Msg503], [ok |-> FALSE, text |-> Msg500]}

\* the answers to the attempts of one call: n overloads, then the answer last
\* for every attempt left
AnswerScript(n, last) ==
    [k \in 1..max_retries |-> IF k <= n THEN [ok |-> FALSE, text |-> Msg503] ELSE last]

VARIABLES
    pipeline,         \* the method called: "extract", "stories" or "criteria"
    api_configured,   \* self.api_configured of the instance called
    pc,               \* "idle", "attempting", "returned" or "raised"
    attempt,          \* the loop variable of extract
    waits,            \* the time.sleep calls made, in order
    gen_calls,        \* the generate_content calls made
    overloaded,       \* the attempts that failed with an overload so far
    last_failure,     \* the message of the last failed attempt, <<>> if none
    raw_output,       \* response.text of the attempt that succeeded
    result,           \* the structure returned
    alternative_ran,  \* whether _alternative_parse ran
    error,            \* the exception raised, "none" if none
    calls,            \* the locals of each of the calls that run concurrently
    formatted,        \* what a formatter returned for the structure returned
    description,      \* the local description of _extract_requirement_items
    db,               \* the tables of the database
    response          \* the answer of a route to its client

vars == <<pipeline, api_configured, pc, attempt, waits, gen_calls, overloaded,
          last_failure, raw_output, result, alternative_ran, error, calls, formatted,
          description, db, response>>

NoResult == [returned |-> FALSE]

NoFormat == [formatted |-> FALSE]

\* no match processed yet
NoDescription == [matched |-> <<>>, text |-> <<>>, passes |-> 0]

\* the tables as _initialize_tables creates them, and the AUTOINCREMENT
\* counter of each
NoRows ==
    [projects |-> {}, inputs |-> {}, requirements |-> {}, user_stories |-> {},
     acceptance_criteria |-> {},
     sequence |-> [projects |-> 0, inputs |-> 0, requirements |-> 0, user_stories |-> 0,
                   acceptance_criteria |-> 0]]

NoResponse == [route |-> "none", status_code |-> 0, raised |-> 0, input_id |-> 0]

InitFor(pipelines) ==
    /\ pipeline \in pipelines
    /\ api_configured \in BOOLEAN
    /\ pc = "idle"
    /\ attempt = 0
    /\ waits = <<>>
    /\ gen_calls = 0
    /\ overloaded = 0
    /\ last_failure = <<>>
    /\ raw_output = <<>>
    /\ result = NoResult
    /\ alternative_ran = FALSE
    /\ error = "none"
    /\ calls = <<>>
    /\ formatted = NoFormat
    /\ description = NoDescription
    /\ db = NoRows
    /\ response = NoResponse

\* An entry that would go on to the generation call whatever api_configured says
CallUnguarded ==
    /\ pc = "idle"
    /\ pc' = "attempting"
    /\ error' = "none"
    /\ UNCHANGED <<pipeline, api_configured, attempt, waits, gen_calls, overloaded,
                   last_failure, raw_output, result, alternative_ran>>
    /\ UNCHANGED <<calls, formatted, description, db, response>>

\* the guard on api_configured that opens extract and both generate methods
Call ==
    /\ pc = "idle"
    /\ IF api_configured
       THEN pc' = "attempting" /\ error' = "none"
       ELSE pc' = "raised" /\ error' = "not_configured"
    /\ UNCHANGED <<pipeline, api_configured, attempt, waits, gen_calls, overloaded,
                   last_failure, raw_output, result, alternative_ran>>
    /\ UNCHANGED <<calls, formatted, description, db, response>>

\* extract: the generation call answers with a text
ExtractReturns(lines) ==
    /\ pipeline = "extract"
    /\ pc = "attempting"
    /\ \E text \in Texts(lines) :
          \E outcome \in {ExtractOutcome(text)} :
             /\ raw_output' = text
             /\ result' = outcome.requirements
             /\ alternative_ran' = outcome.alternative
    /\ gen_calls' = gen_calls + 1
    /\ pc' = "returned"
    /\ UNCHANGED <<pipeline, api_configured, attempt, waits, overloaded,
                   last_failure, error>>
    /\ UNCHANGED <<calls, formatted, description, db, response>>

\* extract: the generation call fails with one of messages
ExtractFails(messages) ==
    /\ pipeline = "extract"
    /\ pc = "attempting"
    /\ \E error_msg \in messages :
          LET handled == ExtractOnFailure(attempt, error_msg)
          IN /\ last_failure' = error_msg
             /\ overloaded' = IF IsOverloadError(error_msg)
                              THEN overloaded + 1 ELSE overloaded
             /\ IF handled.do = "continue"
                THEN /\ waits' = Append(waits, handled.wait_time)
                     /\ attempt' = attempt + 1
                     /\ IF attempt + 1 < max_retries
                        THEN pc' = "attempting" /\ error' = "none"
                        ELSE pc' = "raised" /\ error' = "failed_after_retries"
                ELSE /\ pc' = "raised"
                     /\ error' = handled.error
                     /\ UNCHANGED <<waits, attempt>>
    /\ gen_calls' = gen_calls + 1
    /\ UNCHANGED <<pipeline, api_configured, raw_output, result, alternative_ran>>
    /\ UNCHANGED <<calls, formatted, description, db, response>>

\* UserStoryGenerator.generate: the generation call answers with a text
StoriesReturns(lines) ==
    /\ pipeline = "stories"
    /\ pc = "attempting"
    /\ \E text \in Texts(lines) :
          /\ raw_output' = text
          /\ result' = StoriesOutcome(text)
    /\ gen_calls' = gen_calls + 1
    /\ pc' = "returned"
    /\ UNCHANGED <<pipeline, api_configured, attempt, waits, overloaded,
                   last_failure, alternative_ran, error>>
    /\ UNCHANGED <<calls, formatted, description, db, response>>

\* AcceptanceCriteriaGenerator.generate: the generation call answers with a text
CriteriaReturns(lines) ==
    /\ pipeline = "criteria"
    /\ pc = "attempting"
    /\ \E text \in Texts(lines) :
          /\ raw_output' = text
          /\ result' = CriteriaOutcome(text)
    /\ gen_calls' = gen_calls + 1
    /\ pc' = "returned"
    /\ UNCHANGED <<pipeline, api_configured, attempt, waits, overloaded,
                   last_failure, alternative_ran, error>>
    /\ UNCHANGED <<calls, formatted, description, db, response>>

\* either generate method: the generation call fails
GenerateFails ==
    /\ pipeline \in {"stories", "criteria"}
    /\ pc = "attempting"
    /\ \E error_msg \in ErrorMessages :
          LET handled == GenerateOnFailure(attempt, error_msg)
          IN /\ last_failure' = error_msg
             /\ overloaded' = IF IsOverloadError(error_msg)
                              THEN overloaded + 1 ELSE overloaded
             /\ IF handled.do = "continue"
                THEN /\ waits' = Append(waits, handled.wait_time)
                     /\ attempt' = attempt + 1
                     /\ pc' = "attempting"
                     /\ error' = "none"
                ELSE /\ pc' = "raised"
                     /\ error' = handled.error
                     /\ UNCHANGED <<waits, attempt>>
    /\ gen_calls' = gen_calls + 1
    /\ UNCHANGED <<pipeline, api_configured, raw_output, result, alternative_ran>>
    /\ UNCHANGED <<calls, formatted, description, db, response>>

\* the three pipelines, on short texts
Init == InitFor({"extract", "stories", "criteria"})

Next ==
    \/ Call
    \/ ExtractReturns(BasicRequirementLines)
    \/ ExtractFails(ErrorMessages)
    \/ StoriesReturns(BasicStoryLines)
    \/ CriteriaReturns(BasicCriteriaLines)
    \/ GenerateFails

Spec == Init /\ [][Next]_vars

\* extract on the texts of the requirements vocabulary
InitExtract == InitFor({"extract"})

NextExtract ==
    \/ Call
    \/ ExtractReturns(RequirementLines)
    \/ ExtractFails({Msg503, Msg500})

SpecExtract == InitExtract /\ [][NextExtract]_vars

\* extract on texts without requirement codes, which the alternative parse reads
NextAlternative ==
    \/ Call
    \/ ExtractReturns(AlternativeLineSet)
    \/ ExtractFails({Msg503, Msg500})

SpecAlternative == InitExtract /\ [][NextAlternative]_vars

\* extract on sections whose headers are spelled in Title Case and in lower case
NextHeaders ==
    \/ Call
    \/ ExtractReturns(HeaderLines)
    \/ ExtractFails({Msg503, Msg500})

SpecHeaders == InitExtract /\ [][NextHeaders]_vars

\* extract on sections whose items are written in the ways of all three patterns
NextPatterns ==
    \/ Call
    \/ ExtractReturns(PatternLines)
    \/ ExtractFails({Msg503, Msg500})

SpecPatterns == InitExtract /\ [][NextPatterns]_vars

\* extract on sections with lines that only the line scan reads
NextFallback ==
    \/ Call
    \/ ExtractReturns(FallbackLines)
    \/ ExtractFails({Msg503, Msg500})

SpecFallback == InitExtract /\ [][NextFallback]_vars

\* extract on short texts, every call carried on until it ends: the failures
\* are exceptions of a call that returned control, so a step is taken whenever
\* one can be
NextLoop ==
    \/ Call
    \/ ExtractReturns(BasicRequirementLines)
    \/ ExtractFails(ErrorMessages)

SpecLoop == InitExtract /\ [][NextLoop]_vars /\ WF_vars(NextLoop)

\* AcceptanceCriteriaGenerator.generate on the texts of the criteria vocabulary
InitCriteria == InitFor({"criteria"})

NextCriteria ==
    \/ Call
    \/ CriteriaReturns(CriteriaLines)
    \/ GenerateFails

SpecCriteria == InitCriteria /\ [][NextCriteria]_vars

\* AcceptanceCriteriaGenerator.generate on scenarios of one clause a line
NextClauses ==
    \/ Call
    \/ CriteriaReturns(ClauseLines)
    \/ GenerateFails

SpecClauses == InitCriteria /\ [][NextClauses]_vars

\* AcceptanceCriteriaGenerator.generate on clauses with several AND lines
NextContinuations ==
    \/ Call
    \/ CriteriaReturns(ContinuationLines)
    \/ GenerateFails

SpecContinuations == InitCriteria /\ [][NextContinuations]_vars

\* UserStoryGenerator.generate on blocks with and without a Story ID
InitStories == InitFor({"stories"})

NextStories ==
    \/ Call
    \/ StoriesReturns(StoryLines)
    \/ GenerateFails

SpecStories == InitStories /\ [][NextStories]_vars

\* UserStoryGenerator.generate on one block, its fields written in several ways
NextStoryFields ==
    \/ Call
    \/ StoriesReturns(StoryFieldLines)
    \/ GenerateFails

SpecStoryFields == InitStories /\ [][NextStoryFields]_vars

\* UserStoryGenerator.generate on Story IDs written in either letter case
NextStoryCodes ==
    \/ Call
    \/ StoriesReturns(StoryCodeLines)
    \/ GenerateFails

SpecStoryCodes == InitStories /\ [][NextStoryCodes]_vars

(***************************************************************************)
(* The clean-up of a matched description in _extract_requirement_items     *)
(***************************************************************************)

InitNormalize ==
    /\ pipeline = "items"
    /\ api_configured \in BOOLEAN
    /\ pc = "idle"
    /\ attempt = 0
    /\ waits = <<>>
    /\ gen_calls = 0
    /\ overloaded = 0
    /\ last_failure = <<>>
    /\ raw_output = <<>>
    /\ result = NoResult
    /\ alternative_ran = FALSE
    /\ error = "none"
    /\ calls = <<>>
    /\ formatted = NoFormat
    /\ \E matched \in Descriptions :
          description = [matched |-> matched, text |-> matched, passes |-> 0]
    /\ db = NoRows
    /\ response = NoResponse

\* description = ' '.join(description.split()), on the matched text and once
\* more on its own result
CleanUpDescription ==
    /\ pipeline = "items"
    /\ description.passes < 2
    /\ description' = [description EXCEPT !.text = CollapseWhitespace(@),
                                          !.passes = @ + 1]
    /\ UNCHANGED <<pipeline, api_configured, pc, attempt, waits, gen_calls, overloaded,
                   last_failure, raw_output, result, alternative_ran, error, calls,
                   formatted, db, response>>

NextNormalize == CleanUpDescription

SpecNormalize == InitNormalize /\ [][NextNormalize]_vars

(***************************************************************************)
(* The operations of Database, called in any order.  Every operation opens *)
(* its own connection and commits once, so each is one step.               *)
(***************************************************************************)

InitDatabase ==
    /\ pipeline = "database"
    /\ api_configured = TRUE
    /\ pc = "idle"
    /\ attempt = 0
    /\ waits = <<>>
    /\ gen_calls = 0
    /\ overloaded = 0
    /\ last_failure = <<>>
    /\ raw_output = <<>>
    /\ result = NoResult
    /\ alternative_ran = FALSE
    /\ error = "none"
    /\ calls = <<>>
    /\ formatted = NoFormat
    /\ description = NoDescription
    /\ db = NoRows
    /\ response = NoResponse

DatabaseFrame ==
    UNCHANGED <<pipeline, api_configured, pc, attempt, waits, gen_calls, overloaded,
                last_failure, raw_output, result, alternative_ran, error, calls,
                formatted, description, response>>

DbCreateProject ==
    /\ pipeline = "database"
    /\ RowCount(db) < MaxRows
    /\ db' = CreateProject(db)
    /\ DatabaseFrame

DbSaveInput ==
    /\ pipeline = "database"
    /\ RowCount(db) < MaxRows
    /\ \E project_id \in ParentIds : db' = SaveInput(db, project_id, "text")
    /\ DatabaseFrame

DbSaveRequirements ==
    /\ pipeline = "database"
    /\ \E input_id \in ParentIds, requirements_list \in RequirementLists :
          /\ RowCount(db) + Len(requirements_list) <= MaxRows
          /\ db' = SaveRequirements(db, input_id, requirements_list)
    /\ DatabaseFrame

DbSaveUserStories ==
    /\ pipeline = "database"
    /\ \E req_id \in ParentIds, stories_list \in StoryLists :
          /\ RowCount(db) + Len(stories_list) <= MaxRows
          /\ db' = SaveUserStories(db, req_id, stories_list)
    /\ DatabaseFrame

DbSaveAcceptanceCriteria ==
    /\ pipeline = "database"
    /\ \E story_id \in ParentIds, criteria_list \in CriteriaLists :
          /\ RowCount(db) + Len(criteria_list) <= MaxRows
          /\ db' = SaveAcceptanceCriteria(db, story_id, criteria_list)
    /\ DatabaseFrame

DbDeleteProject ==
    /\ pipeline = "database"
    /\ \E project_id \in ParentIds : db' = DeleteProject(db, project_id)
    /\ DatabaseFrame

NextDatabase ==
    \/ DbCreateProject
    \/ DbSaveInput
    \/ DbSaveRequirements
    \/ DbSaveUserStories
    \/ DbSaveAcceptanceCriteria
    \/ DbDeleteProject

SpecDatabase == InitDatabase /\ [][NextDatabase]_vars

(***************************************************************************)
(* The requests to the routes, served one at a time.  gen_calls and waits  *)
(* count the generation calls and the sleeps of the request served last.   *)
(***************************************************************************)

InitRoutes ==
    /\ pipeline = "routes"
    /\ api_configured \in BOOLEAN
    /\ pc = "idle"
    /\ attempt = 0
    /\ waits = <<>>
    /\ gen_calls = 0
    /\ overloaded = 0
    /\ last_failure = <<>>
    /\ raw_output = <<>>
    /\ result = NoResult
    /\ alternative_ran = FALSE
    /\ error = "none"
    /\ calls = <<>>
    /\ formatted = NoFormat
    /\ description = NoDescription
    /\ db = NoRows
    /\ response = NoResponse

RoutesFrame ==
    UNCHANGED <<pipeline, api_configured, pc, attempt, overloaded, last_failure,
                alternative_ran, error, calls, formatted, description>>

\* a request that ends before any generation call
NoGeneration ==
    /\ gen_calls' = 0
    /\ waits' = <<>>
    /\ UNCHANGED <<raw_output, result>>

\* POST /input/text
SubmitText ==
    /\ pipeline = "routes"
    /\ \E project_id \in ParentIds, text \in RequestTexts :
          IF ValidateText(text)
          THEN /\ RowCount(db) < MaxSaved
               /\ db' = SaveInput(db, project_id, "text")
               /\ response' = Answer("input/text", 200, 0, db.sequence.inputs + 1)
          ELSE /\ db' = db
               /\ response' = Answer("input/text", ExceptException(HttpException(400)),
                                     400, 0)
    /\ NoGeneration
    /\ RoutesFrame

\* POST /input/upload
UploadDocument ==
    /\ pipeline = "routes"
    /\ \E project_id \in ParentIds, file \in Files :
          IF ParseDocument(file).raised
          THEN /\ db' = db
               /\ response' = Answer("input/upload", ExceptException(OtherException),
                                     0, 0)
          ELSE IF ValidateText(ParseDocument(file).text)
               THEN /\ RowCount(db) < MaxSaved
                    /\ db' = SaveInput(db, project_id, "document")
                    /\ response' = Answer("input/upload", 200, 0, db.sequence.inputs + 1)
               ELSE /\ db' = db
                    /\ response' = Answer("input/upload",
                                          ExceptException(HttpException(400)), 400, 0)
    /\ NoGeneration
    /\ RoutesFrame

\* POST /requirements/extract
ExtractRequirements ==
    /\ pipeline = "routes"
    /\ \E input_id \in ParentIds :
          IF \A input \in db.inputs : input.input_id # input_id
          THEN /\ response' = Answer("requirements/extract",
                                     ExceptHTTPException(HttpException(404)), 404, 0)
               /\ db' = db
               /\ NoGeneration
          ELSE IF ~api_configured
               THEN /\ response' = Answer("requirements/extract",
                                          ExceptHTTPException(HttpException(500)), 500, 0)
                    /\ db' = db
                    /\ NoGeneration
               ELSE \E last \in Answers :
                       \E outcome \in {IF last.ok THEN ExtractOutcome(last.text)
                                       ELSE ExtractOutcome(<<>>)} :
                          \E n \in 0..(max_retries - 1) :
                             \E run \in {ExtractLoop(AnswerScript(n, last), 0, <<>>)} :
                                /\ gen_calls' = run.calls
                                /\ waits' = run.waits
                                /\ IF run.returned
                                   THEN \E all_reqs \in
                                              {outcome.requirements.functional
                                                \o outcome.requirements.non_functional} :
                                           /\ RowCount(db) + Len(all_reqs) <= MaxSaved
                                           /\ db' = IF all_reqs # <<>>
                                                    THEN SaveRequirements(db, input_id,
                                                                          all_reqs)
                                                    ELSE db
                                           /\ raw_output' = run.raw_output
                                           /\ result' = outcome.requirements
                                           /\ response' = Answer("requirements/extract",
                                                                 200, 0, 0)
                                   ELSE /\ response' =
                                               Answer("requirements/extract",
                                                      ExceptHTTPException(
                                                          HttpException(500)),
                                                      500, 0)
                                        /\ UNCHANGED <<db, raw_output, result>>
    /\ RoutesFrame

\* POST /stories/generate
GenerateStories ==
    /\ pipeline = "routes"
    /\ \E input_id \in ParentIds :
          IF GetRequirements(db, input_id) = {}
          THEN /\ response' = Answer("stories/generate",
                                     ExceptException(HttpException(404)), 404, 0)
               /\ NoGeneration
          ELSE IF ~api_configured
               THEN /\ response' = Answer("stories/generate",
                                          ExceptException(OtherException), 0, 0)
                    /\ NoGeneration
               ELSE \/ \E text \in ConcurrentTexts("stories") :
                          /\ raw_output' = text
                          /\ result' = StoriesOutcome(text)
                          /\ gen_calls' = 1
                          /\ waits' = <<>>
                          /\ response' = Answer("stories/generate", 200, 0, 0)
                    \/ /\ gen_calls' = 1
                       /\ waits' = <<>>
                       /\ response' = Answer("stories/generate",
                                             ExceptException(OtherException), 0, 0)
                       /\ UNCHANGED <<raw_output, result>>
    /\ db' = db
    /\ RoutesFrame

NextRoutes ==
    \/ SubmitText
    \/ UploadDocument
    \/ ExtractRequirements
    \/ GenerateStories

SpecRoutes == InitRoutes /\ [][NextRoutes]_vars

(***************************************************************************)
(* Calls that run at the same time on the module-level instances extractor *)
(* and story_gen.  A call holds its locals in calls[c]; the instances hold *)
(* api_configured (and the model handle), written by __init__ only.        *)
(***************************************************************************)

Callers == 1..NumCalls

\* the locals of a call that has not started
IdleCall(p) ==
    [pipeline |-> p, pc |-> "idle", attempt |-> 0, raw_output |-> <<>>,
     story_blocks |-> <<>>, stories |-> <<>>, result |-> NoResult, error |-> "none"]

InitConcurrent ==
    /\ pipeline = "concurrent"
    /\ api_configured \in BOOLEAN
    /\ pc = "idle"
    /\ attempt = 0
    /\ waits = <<>>
    /\ gen_calls = 0
    /\ overloaded = 0
    /\ last_failure = <<>>
    /\ raw_output = <<>>
    /\ result = NoResult
    /\ alternative_ran = FALSE
    /\ error = "none"
    /\ calls \in [Callers -> {IdleCall(p) : p \in {"extract", "stories"}}]
    /\ formatted = NoFormat
    /\ description = NoDescription
    /\ db = NoRows
    /\ response = NoResponse

\* what a step of one of the concurrent calls leaves alone: the instance and
\* the variables of the single call
CallFrame ==
    UNCHANGED <<pipeline, api_configured, pc, attempt, waits, gen_calls, overloaded,
                last_failure, raw_output, result, alternative_ran, error, formatted,
                description, db, response>>

\* call c reads self.api_configured at its entry
Enter(c) ==
    /\ calls[c].pc = "idle"
    /\ calls' = [calls EXCEPT
                    ![c].pc = IF api_configured THEN "attempting" ELSE "raised",
                    ![c].error = IF api_configured THEN "none" ELSE "not_configured"]
    /\ CallFrame

\* the generation call of c is answered; generate goes on to cut the blocks
Answered(c) ==
    /\ calls[c].pc = "attempting"
    /\ \E text \in ConcurrentTexts(calls[c].pipeline) :
          calls' = [calls EXCEPT
                       ![c].raw_output = text,
                       ![c].pc = "parsing",
                       ![c].stories = <<>>,
                       ![c].story_blocks = IF calls[c].pipeline = "stories"
                                           THEN SplitBlocksFrom(text, 1) ELSE <<>>]
    /\ CallFrame

\* the except branch of c for a failure that handled describes
FailedWith(c, handled) ==
    /\ calls' = [calls EXCEPT
                    ![c].attempt = IF handled.do = "continue" THEN @ + 1 ELSE @,
                    ![c].pc = IF handled.do = "continue" /\ calls[c].attempt + 1 < max_retries
                              THEN "attempting" ELSE "raised",
                    ![c].error = IF handled.do = "continue"
                                 THEN IF calls[c].attempt + 1 < max_retries
                                      THEN "none" ELSE "failed_after_retries"
                                 ELSE handled.error]
    /\ CallFrame

\* the generation call of c fails
Failed(c) ==
    /\ calls[c].pc = "attempting"
    /\ \E error_msg \in {Msg503, Msg500} :
          FailedWith(c, IF calls[c].pipeline = "extract"
                        THEN ExtractOnFailure(calls[c].attempt, error_msg)
                        ELSE GenerateOnFailure(calls[c].attempt, error_msg))

\* A loop body that would collect the stories in one list of the shared instance
SharedStories(c) ==
    /\ calls[c].pipeline = "stories"
    /\ calls[c].pc = "parsing"
    /\ calls[c].story_blocks # <<>>
    /\ \E found \in {StoryOf(Strip(calls[c].story_blocks[1]),
                             ExtractStoryFields(Strip(calls[c].story_blocks[1])))} :
          calls' = [k \in Callers |->
                       IF calls[k].pipeline # "stories" THEN calls[k]
                       ELSE [calls[k] EXCEPT
                                !.stories = @ \o found,
                                !.story_blocks = IF k = c THEN Tail(@) ELSE @]]
    /\ CallFrame

\* one pass of the loop of _parse_user_stories in c, on its local list
StoriesParseBlock(c) ==
    /\ calls[c].pipeline = "stories"
    /\ calls[c].pc = "parsing"
    /\ calls[c].story_blocks # <<>>
    /\ calls' = [calls EXCEPT
                    ![c].stories = @ \o StoryOf(Strip(calls[c].story_blocks[1]),
                                        ExtractStoryFields(Strip(calls[c].story_blocks[1]))),
                    ![c].story_blocks = Tail(@)]
    /\ CallFrame

\* generate returns in c
StoriesReturn(c) ==
    /\ calls[c].pipeline = "stories"
    /\ calls[c].pc = "parsing"
    /\ calls[c].story_blocks = <<>>
    /\ calls' = [calls EXCEPT
                    ![c].result = StoriesResult(calls[c].stories, calls[c].raw_output),
                    ![c].pc = "returned"]
    /\ CallFrame

\* extract parses and returns in c, after the alternative parse if the
\* structured parse counted nothing
ExtractReturn(c) ==
    /\ calls[c].pipeline = "extract"
    /\ calls[c].pc = "parsing"
    /\ calls' = [calls EXCEPT
                    ![c].result = ExtractOutcome(calls[c].raw_output).requirements,
                    ![c].pc = "returned"]
    /\ CallFrame

NextConcurrent ==
    \/ \E c \in Callers : Enter(c)
    \/ \E c \in Callers : Answered(c)
    \/ \E c \in Callers : Failed(c)
    \/ \E c \in Callers : StoriesParseBlock(c)
    \/ \E c \in Callers : StoriesReturn(c)
    \/ \E c \in Callers : ExtractReturn(c)

SpecConcurrent == InitConcurrent /\ [][NextConcurrent]_vars

(***************************************************************************)
(* The formatters, called on the structure a pipeline returned             *)
(***************************************************************************)

\* what a formatter call leaves alone: everything but its return value
FormatFrame ==
    UNCHANGED <<pipeline, api_configured, pc, attempt, waits, gen_calls, overloaded,
                last_failure, raw_output, result, alternative_ran, error, calls,
                description, db, response>>

\* extractor.format_for_display(requirements)
DisplayRequirements ==
    /\ pipeline = "extract"
    /\ pc = "returned"
    /\ formatted' = [formatted |-> TRUE, output |-> FormatForDisplay(result)]
    /\ FormatFrame

\* story_gen.format_for_jira(stories_data)
ExportJira ==
    /\ pipeline = "stories"
    /\ pc = "returned"
    /\ formatted' = [formatted |-> TRUE, output |-> FormatForJira(result)]
    /\ FormatFrame

\* criteria_gen.format_for_gherkin(criteria_data)
ExportGherkin ==
    /\ pipeline = "criteria"
    /\ pc = "returned"
    /\ formatted' = [formatted |-> TRUE,
                     output |-> FormatForGherkin(result, DefaultFeatureName)]
    /\ FormatFrame

NextFormat ==
    \/ Call
    \/ ExtractReturns(BasicRequirementLines)
    \/ StoriesReturns(FormatStoryLines)
    \/ CriteriaReturns(BasicCriteriaLines)
    \/ DisplayRequirements
    \/ ExportJira
    \/ ExportGherkin

SpecFormat == Init /\ [][NextFormat]_vars

\* format_for_jira on stories whose titles do and do not hold double quotes
NextCsv ==
    \/ Call
    \/ StoriesReturns(CsvStoryLines)
    \/ GenerateFails
    \/ ExportJira

SpecCsv == InitStories /\ [][NextCsv]_vars

(***************************************************************************)
(* The retry loop of extract and the single attempt of the generate methods *)
(***************************************************************************)

\* C1: in extract, three consecutive overloaded attempts are followed by a
\* third wait and a fourth attempt, whose success is returned; only a fourth
\* overloaded attempt is fatal, and no attempt follows it.
C1_ThreeWaitsThenFatal ==
    pipeline = "extract" =>
        /\ overloaded = 3 => pc # "raised" /\ Len(waits) = 3
        /\ overloaded = 4 => pc = "raised"
        /\ overloaded <= 4

\* the third consecutive overload of extract has been handled
C1_ThirdOverload == pipeline = "extract" /\ overloaded = 3

\* C3: every call of the three pipelines that returns, returns a structure with
\* the field raw_output, which holds the text the generation call answered.
C3_RawOutputReturned ==
    pc = "returned" => "raw_output" \in DOMAIN result /\ result.raw_output = raw_output

\* extract has returned what the alternative parse read
C3_AlternativeReturned == pipeline = "extract" /\ pc = "returned" /\ alternative_ran

\* C4: in extract, a failure whose message holds neither "503" nor, in any
\* letter case, "overloaded" ends the call with the extraction error: the
\* failed attempt is the last one, and no wait follows it, on whichever attempt
\* it occurs.
C4_OtherFailureEndsCall ==
    (pipeline = "extract" /\ last_failure # <<>> /\ ~IsOverloadError(last_failure)) =>
        /\ pc = "raised"
        /\ error = "extraction_error"
        /\ gen_calls = overloaded + 1
        /\ Len(waits) = overloaded

\* the second attempt of extract failed otherwise, after an overloaded first attempt
C4_OtherFailureAfterOverload ==
    /\ pipeline = "extract"
    /\ last_failure = Msg500
    /\ overloaded = 1
    /\ waits = <<2>>
    /\ pc = "raised"

\* C5: the two generate methods call the generation capability at most once in
\* a call, exactly once in a call that gets to it, and never wait: a failure of
\* that call, overload or not, ends the call with the raised error.  Only
\* extract waits.
C5_GenerateNeverRetries ==
    /\ pipeline \in {"stories", "criteria"} =>
          /\ gen_calls <= 1
          /\ attempt = 0
          /\ waits = <<>>
          /\ pc = "returned" => gen_calls = 1
          /\ last_failure # <<>> =>
                pc = "raised" /\ error = "generation_error" /\ gen_calls = 1
    /\ waits # <<>> => pipeline = "extract"

\* the one generation call of UserStoryGenerator.generate failed with an overload
C5_OverloadRaised ==
    /\ pipeline = "stories"
    /\ IsOverloadError(last_failure)
    /\ pc = "raised"
    /\ gen_calls = 1

(***************************************************************************)
(* What extract returns                                                    *)
(***************************************************************************)

\* the requirements extract returned, of both lists
Returned == result.functional \o result.non_functional

\* the sections of a response, as _parse_requirements cuts them
SectionsOf(text) == [k \in 1..Len(Split(text, <<"#", "#">>)) |->
                        Strip(Split(text, <<"#", "#">>)[k])]

\* the header a section or line stands for, the longer name looked for first
HeaderKind(s) ==
    IF IsNonFunctionalHeader(s) THEN "non_functional"
    ELSE IF IsFunctionalHeader(s) THEN "functional"
    ELSE "none"

\* the sections of a response under a header of one kind
SectionsUnder(text, kind) ==
    {k \in 1..Len(SectionsOf(text)) : HeaderKind(SectionsOf(text)[k]) = kind}

\* the items written in the one section under a header of one kind
ItemsUnder(text, kind, prefix) ==
    ExtractRequirementItems(SectionsOf(text)[CHOOSE k \in SectionsUnder(text, kind) : TRUE],
                            prefix)

\* one section under each header, each with items of its own kind
BothSectionsHoldItems(text) ==
    /\ Cardinality(SectionsUnder(text, "functional")) = 1
    /\ Cardinality(SectionsUnder(text, "non_functional")) = 1
    /\ ItemsUnder(text, "functional", FR) # <<>>
    /\ ItemsUnder(text, "non_functional", NFR) # <<>>

\* C2: for a response with a functional and a non-functional section, extract
\* returns the items of the functional section in functional and the items of
\* the non-functional section in non_functional; neither list holds, or is
\* replaced by, items of the other section.
C2_SectionsRouted ==
    (pipeline = "extract" /\ pc = "returned" /\ BothSectionsHoldItems(raw_output)) =>
        /\ result.functional = ItemsUnder(raw_output, "functional", FR)
        /\ result.non_functional = ItemsUnder(raw_output, "non_functional", NFR)

\* extract has returned for a response with items in both sections
C2_BothSections ==
    pipeline = "extract" /\ pc = "returned" /\ BothSectionsHoldItems(raw_output)

\* FR-<digits> or NFR-<digits>
IsReqCode(code) ==
    \E prefix \in {FR, NFR} : CodeAt(code, 1, prefix) = Len(code) + 1

\* C7: every requirement extract returns has a req_code of the form
\* FR-<digits> or NFR-<digits>.
C7_CodesWellFormed ==
    (pipeline = "extract" /\ pc = "returned") =>
        \A k \in 1..Len(Returned) : IsReqCode(Returned[k].req_code)

\* extract has returned a requirement of the line scan
C7_LineScanReturned ==
    /\ pipeline = "extract"
    /\ pc = "returned"
    /\ ~alternative_ran
    /\ FindAll(raw_output, FR, 1) = <<>>
    /\ result.functional # <<>>

\* C8: extract runs the alternative parse exactly when the structured parse
\* counts no requirement, and then returns what the alternative parse read; when
\* neither parse finds anything the call returns the empty structure.  A call
\* that got a response raises nothing.
C8_AlternativeWhenEmpty ==
    /\ (pipeline = "extract" /\ pc = "returned") =>
          LET structured == ParseRequirements(raw_output)
              alternative == AlternativeParse(raw_output)
          IN /\ alternative_ran <=> structured.total_count = 0
             /\ alternative_ran => result = alternative
             /\ ~alternative_ran =>
                   /\ result.functional = structured.functional
                   /\ result.non_functional = structured.non_functional
                   /\ result.total_count = structured.total_count
             /\ (structured.total_count = 0 /\ alternative.total_count = 0) =>
                   /\ result.functional = <<>>
                   /\ result.non_functional = <<>>
                   /\ result.total_count = 0
                   /\ error = "none"
    /\ (pipeline = "extract" /\ raw_output # <<>>) => pc = "returned"

\* extract has returned the requirements the alternative parse read
C8_AlternativeResult ==
    /\ pipeline = "extract"
    /\ pc = "returned"
    /\ alternative_ran
    /\ result.total_count > 0
    /\ ParseRequirements(raw_output).total_count = 0

\* the lines of a response, as _alternative_parse cuts them
LinesOf(text) == [k \in 1..Len(Split(text, <<"\n">>)) |-> Strip(Split(text, <<"\n">>)[k])]

\* a line that _alternative_parse reads as a header
IsHeaderLine(line) == HeaderKind(line) # "none" \/ StartsWith(line, <<"#", "#">>)

\* a bulleted line that _alternative_parse accepts as a requirement
IsAcceptedLine(line) ==
    ~IsHeaderLine(line) /\ Len(line) > 20 /\ line[1] \in BulletChars

\* the kind of the last header above line i
HeaderAbove(lines, i) ==
    IF {j \in 1..(i - 1) : IsHeaderLine(lines[j])} = {} THEN "none"
    ELSE HeaderKind(lines[Max({j \in 1..(i - 1) : IsHeaderLine(lines[j])})])

\* the accepted lines under a header of one kind
AcceptedUnder(lines, kind) ==
    {i \in 1..Len(lines) : IsAcceptedLine(lines[i]) /\ HeaderAbove(lines, i) = kind}

\* C9: the alternative parse numbers the accepted lines under a functional
\* header FR-001, FR-002, ... and, with a counter of their own, the accepted
\* lines under a non-functional header NFR-001, NFR-002, ...
C9_SequentialCodes ==
    (pipeline = "extract" /\ pc = "returned" /\ alternative_ran) =>
        /\ Len(result.functional) =
              Cardinality(AcceptedUnder(LinesOf(raw_output), "functional"))
        /\ Len(result.non_functional) =
              Cardinality(AcceptedUnder(LinesOf(raw_output), "non_functional"))
        /\ \A k \in 1..Len(result.functional) :
              result.functional[k].req_code = FR \o <<"-">> \o Pad03d(k)
        /\ \A k \in 1..Len(result.non_functional) :
              result.non_functional[k].req_code = NFR \o <<"-">> \o Pad03d(k)

\* the alternative parse has read an accepted line under a non-functional header
C9_LineUnderNonFunctional ==
    /\ pipeline = "extract"
    /\ pc = "returned"
    /\ alternative_ran
    /\ AcceptedUnder(LinesOf(raw_output), "non_functional") # {}

\* C10: every requirement extract returns has a description of more than 10
\* characters, whichever parse read it.
C10_DescriptionsLong ==
    (pipeline = "extract" /\ pc = "returned") =>
        \A k \in 1..Len(Returned) : Len(Returned[k].description) > 10

\* the alternative parse has read a bulleted line with a short description
C10_ShortBullet ==
    /\ pipeline = "extract"
    /\ pc = "returned"
    /\ alternative_ran
    /\ \E k \in 1..Len(LinesOf(raw_output)) :
          /\ IsAcceptedLine(LinesOf(raw_output)[k])
          /\ HeaderAbove(LinesOf(raw_output), k) = "functional"
          /\ Len(Strip(LStripChars(LinesOf(raw_output)[k], BulletChars))) <= 10

\* trimmed at both ends, on one line, every run of whitespace a single space
IsNormalized(s) ==
    /\ \A i \in 1..Len(s) : s[i] \in Whitespace => s[i] = " "
    /\ s # <<>> => s[1] # " " /\ s[Len(s)] # " "
    /\ \A i \in 1..(Len(s) - 1) : ~(s[i] = " " /\ s[i + 1] = " ")

\* C11: every description extract returns, whichever parse read it, is
\* whitespace-normalized: trimmed, on one line, every run of whitespace
\* collapsed to a single space.
C11_DescriptionsNormalized ==
    (pipeline = "extract" /\ pc = "returned") =>
        \A k \in 1..Len(Returned) : IsNormalized(Returned[k].description)

\* the alternative parse has read a bulleted line with a run of two spaces
C11_WideBullet ==
    /\ pipeline = "extract"
    /\ pc = "returned"
    /\ alternative_ran
    /\ \E k \in 1..Len(LinesOf(raw_output)) :
          /\ IsAcceptedLine(LinesOf(raw_output)[k])
          /\ HeaderAbove(LinesOf(raw_output), k) # "none"
          /\ Contains(LinesOf(raw_output)[k], <<" ", " ">>)

\* C12: the requirements of one extract call, functional and non_functional
\* together, carry pairwise different codes, also when the response repeats a
\* code or holds several sections of one kind.
C12_CodesUnique ==
    (pipeline = "extract" /\ pc = "returned") =>
        \A j, k \in 1..Len(Returned) :
            j # k => Returned[j].req_code # Returned[k].req_code

\* the structured parse has read a section that writes one code on two items
C12_CodeRepeated ==
    /\ pipeline = "extract"
    /\ pc = "returned"
    /\ ~alternative_ran
    /\ \E k \in SectionsUnder(raw_output, "functional") :
          Len(FindAll(SectionsOf(raw_output)[k], FR, 1)) >= 2
    /\ Len(result.functional) >= 2


(***************************************************************************)
(* What AcceptanceCriteriaGenerator.generate returns                       *)
(***************************************************************************)

Then == <<"t", "h", "e", "n">>

\* the scenario blocks of a response: the name and the content of each marker
ScenarioBlocks(text) ==
    [k \in 1..((Len(SplitScenarios(text)) - 1) \div 2) |->
        [scenario_name |-> Strip(SplitScenarios(text)[2 * k]),
         content |-> Strip(SplitScenarios(text)[2 * k + 1])]]

\* what is extracted from a block
Extracted(block) ==
    [scenario_name |-> block.scenario_name,
     given |-> ClauseField(block.content, GIVEN, "given", "given_and"),
     when |-> ClauseField(block.content, WHEN, "when", "when_and"),
     then |-> ClauseField(block.content, THEN_, "then", "then_and")]

IsComplete(criteria) ==
    criteria.given # <<>> /\ criteria.when # <<>> /\ criteria.then # <<>>

\* C6: the criteria returned are, in order, what is extracted from exactly the
\* scenario blocks whose given, when and then are all non-empty; a block
\* without THEN gives no record, and no record has an empty given, when or then.
C6_CompletenessGate ==
    (pipeline = "criteria" /\ pc = "returned") =>
        LET blocks == ScenarioBlocks(raw_output)
            extracted == [k \in 1..Len(blocks) |-> Extracted(blocks[k])]
        IN /\ result.criteria = SelectSeq(extracted, IsComplete)
           /\ \A k \in 1..Len(result.criteria) : IsComplete(result.criteria[k])
           /\ \A k \in 1..Len(blocks) :
                 ~Contains(Lower(blocks[k].content), Then) => ~IsComplete(extracted[k])
           /\ result.total_scenarios = Len(result.criteria)

\* a response with a block of GIVEN and WHEN without THEN has been parsed
C6_BlockWithoutThen ==
    /\ pipeline = "criteria"
    /\ pc = "returned"
    /\ Len(result.criteria) < Len(ScenarioBlocks(raw_output))
    /\ \E k \in 1..Len(ScenarioBlocks(raw_output)) :
          /\ Extracted(ScenarioBlocks(raw_output)[k]).given # <<>>
          /\ Extracted(ScenarioBlocks(raw_output)[k]).when # <<>>
          /\ Extracted(ScenarioBlocks(raw_output)[k]).then = <<>>

\* the clause a line of a scenario opens: "- GIVEN ", "- AND ", "- WHEN ", "- THEN "
ClauseKind(line) ==
    IF LitAt(line, 1, <<"-", " ">> \o GIVEN \o <<" ">>) THEN "given"
    ELSE IF LitAt(line, 1, <<"-", " ">> \o WHEN \o <<" ">>) THEN "when"
    ELSE IF LitAt(line, 1, <<"-", " ">> \o THEN_ \o <<" ">>) THEN "then"
    ELSE IF LitAt(line, 1, <<"-", " ">> \o AND \o <<" ">>) THEN "and"
    ELSE "none"

\* what a clause line says behind its keyword
ClauseText(line) ==
    SubSeq(line, Min({i \in 3..Len(line) : line[i] = " "}) + 1, Len(line))

\* GIVEN, WHEN, THEN once each and in this order, the other lines AND lines
IsClauseBlock(lines) ==
    /\ lines # <<>>
    /\ ClauseKind(lines[1]) = "given"
    /\ \A kind \in {"given", "when", "then"} :
          Cardinality({i \in 1..Len(lines) : ClauseKind(lines[i]) = kind}) = 1
    /\ \A i \in 1..Len(lines) : ClauseKind(lines[i]) # "none"
    /\ \E w, t \in 1..Len(lines) :
          w < t /\ ClauseKind(lines[w]) = "when" /\ ClauseKind(lines[t]) = "then"

\* the clause line i stands under: the last GIVEN, WHEN or THEN line up to it
ClauseAbove(lines, i) ==
    ClauseKind(lines[Max({j \in 1..i : ClauseKind(lines[j]) \in {"given", "when", "then"}})])

\* the AND lines that follow the clause of one kind
AndLinesAfter(lines, kind) ==
    {i \in 1..Len(lines) : ClauseKind(lines[i]) = "and" /\ ClauseAbove(lines, i) = kind}

\* the line of the clause of one kind
ClauseLine(lines, kind) == lines[CHOOSE i \in 1..Len(lines) : ClauseKind(lines[i]) = kind]

\* a field holds what its clause line says, followed by what the AND lines
\* after that clause say and by nothing of another AND line
FieldFollows(field, lines, kind) ==
    /\ AndLinesAfter(lines, kind) = {} => field = ClauseText(ClauseLine(lines, kind))
    /\ \A i \in 1..Len(lines) :
          ClauseKind(lines[i]) = "and" =>
             (Contains(field, <<" ">> \o AND \o <<" ">> \o ClauseText(lines[i]))
                 <=> AndLinesAfter(lines, kind) # {})

\* C13: _extract_given_when_then attaches an AND line only to the clause it
\* follows: in a scenario of one clause a line, an AND line between GIVEN and
\* WHEN goes to given only, one between WHEN and THEN to when only, one after
\* THEN to then only, and a clause without AND lines is returned as written.
C13_AndFollowsClause ==
    (pipeline = "criteria" /\ pc = "returned"
        /\ Len(ScenarioBlocks(raw_output)) = 1
        /\ IsClauseBlock(LinesOf(ScenarioBlocks(raw_output)[1].content))) =>
        LET lines == LinesOf(ScenarioBlocks(raw_output)[1].content)
        IN /\ Len(result.criteria) = 1
           /\ FieldFollows(result.criteria[1].given, lines, "given")
           /\ FieldFollows(result.criteria[1].when, lines, "when")
           /\ FieldFollows(result.criteria[1].then, lines, "then")

\* a scenario with an AND line between GIVEN and WHEN has been parsed
C13_AndAfterGiven ==
    /\ pipeline = "criteria"
    /\ pc = "returned"
    /\ Len(ScenarioBlocks(raw_output)) = 1
    /\ IsClauseBlock(LinesOf(ScenarioBlocks(raw_output)[1].content))
    /\ AndLinesAfter(LinesOf(ScenarioBlocks(raw_output)[1].content), "given") # {}
    /\ Len(result.criteria) = 1

(***************************************************************************)
(* What UserStoryGenerator.generate returns                                *)
(***************************************************************************)

\* US-<digits>, the prefix in upper case
IsStoryCode(code) ==
    /\ LitAt(code, 1, US_)
    /\ Len(code) > Len(US_)
    /\ SkipDigits(code, Len(US_) + 1) = Len(code) + 1

\* C14: every story generate returns has a story_code of the form US-<digits>,
\* the prefix in upper case, whatever letter case the response wrote it in.
C14_StoryCodesWellFormed ==
    (pipeline = "stories" /\ pc = "returned") =>
        \A k \in 1..Len(result.stories) : IsStoryCode(result.stories[k].story_code)

\* a story has been returned for a block whose Story ID is written in lower case
C14_LowerCaseId ==
    /\ pipeline = "stories"
    /\ pc = "returned"
    /\ result.stories # <<>>
    /\ Contains(raw_output, LineStoryIdLower)
    /\ ~Contains(raw_output, LineStoryId)

\* the blocks of a response, as _parse_user_stories cuts and trims them
BlocksOf(text) ==
    [k \in 1..Len(SplitBlocksFrom(text, 1)) |-> Strip(SplitBlocksFrom(text, 1)[k])]

\* the places of a block where a Story ID is written: the label in any letter
\* case, then US-<digits> in any letter case
StoryIdPlaces(block) ==
    {i \in 1..Len(block) :
        /\ LitAtI(block, i, StoryIdLabel)
        /\ LitAtI(block, SkipWs(block, i + Len(StoryIdLabel)), US_)
        /\ SkipDigits(block, SkipWs(block, i + Len(StoryIdLabel)) + Len(US_))
              > SkipWs(block, i + Len(StoryIdLabel)) + Len(US_)}

\* the first Story ID written in a block
StoryIdOf(block) ==
    LET p == SkipWs(block, Min(StoryIdPlaces(block)) + Len(StoryIdLabel))
    IN SubSeq(block, p, SkipDigits(block, p + Len(US_)) - 1)

\* a block of at least 50 characters
IsLongBlock(block) == Len(block) >= 50

\* a block of at least 50 characters in which a Story ID is written
IsStoryBlock(block) == IsLongBlock(block) /\ StoryIdPlaces(block) # {}

\* C15: _parse_user_stories turns a block of at least 50 characters into one
\* story when a Story ID is written in it and into no story otherwise: the
\* stories are, in order, those of the blocks with a Story ID, none has an
\* empty story_code, and there are no more stories than blocks.
C15_StoriesHaveCodes ==
    (pipeline = "stories" /\ pc = "returned") =>
        LET story_blocks == SelectSeq(BlocksOf(raw_output), IsStoryBlock)
        IN /\ Len(result.stories) = Len(story_blocks)
           /\ \A k \in 1..Len(result.stories) :
                 /\ result.stories[k].story_code # <<>>
                 /\ result.stories[k].story_code = StoryIdOf(story_blocks[k])
           /\ Len(result.stories) <= Len(BlocksOf(raw_output))
           /\ result.total_count = Len(result.stories)

\* a response with a block of 50 characters or more without a Story ID, and a
\* block with one, has been parsed
C15_BlockWithoutId ==
    /\ pipeline = "stories"
    /\ pc = "returned"
    /\ result.stories # <<>>
    /\ \E k \in 1..Len(BlocksOf(raw_output)) :
          IsLongBlock(BlocksOf(raw_output)[k]) /\ StoryIdPlaces(BlocksOf(raw_output)[k]) = {}

\* C16: _parse_user_stories skips every block whose trimmed length is below
\* 50 characters, also when a Story ID is written in it: there are no more
\* stories than blocks of 50 characters or more, and a response of two blocks,
\* the first a story block and the second shorter than 50 characters, gives
\* exactly one story, that of the first block.
C16_ShortBlocksSkipped ==
    (pipeline = "stories" /\ pc = "returned") =>
        LET blocks == BlocksOf(raw_output)
        IN /\ Len(result.stories) <= Len(SelectSeq(blocks, IsLongBlock))
           /\ (\A k \in 1..Len(blocks) : ~IsLongBlock(blocks[k])) => result.stories = <<>>
           /\ (Len(blocks) = 2 /\ IsStoryBlock(blocks[1]) /\ ~IsLongBlock(blocks[2])) =>
                 /\ Len(result.stories) = 1
                 /\ result.stories[1].story_code = StoryIdOf(blocks[1])

\* a response of a story block, a '---' line and a block of 30 characters with
\* a Story ID has been parsed
C16_ShortSecondBlock ==
    /\ pipeline = "stories"
    /\ pc = "returned"
    /\ Len(BlocksOf(raw_output)) = 2
    /\ IsStoryBlock(BlocksOf(raw_output)[1])
    /\ Len(BlocksOf(raw_output)[2]) = 30
    /\ StoryIdPlaces(BlocksOf(raw_output)[2]) # {}
    /\ Len(result.stories) = 1

Priorities == {High, Medium, Low}

\* the places of a block where a priority is written: the label in any letter
\* case, then High, Medium or Low in any letter case
PriorityPlaces(block) ==
    {i \in 1..Len(block) :
        /\ LitAtI(block, i, PriorityLabel)
        /\ \E p \in Priorities : LitAtI(block, SkipWs(block, i + Len(PriorityLabel)), p)}

\* the first priority written in a block, in Title Case
PriorityOf(block) ==
    CHOOSE p \in Priorities :
        LitAtI(block, SkipWs(block, Min(PriorityPlaces(block)) + Len(PriorityLabel)), p)

\* C17: every story generate returns has the priority High, Medium or Low: the
\* priority written in its block, in whatever letter case, in Title Case, and
\* Medium when the block writes no priority or one that is none of the three.
C17_PriorityNormalized ==
    (pipeline = "stories" /\ pc = "returned") =>
        LET story_blocks == SelectSeq(BlocksOf(raw_output), IsStoryBlock)
        IN /\ Len(result.stories) = Len(story_blocks)
           /\ \A k \in 1..Len(result.stories) :
                 /\ result.stories[k].priority \in Priorities
                 /\ PriorityPlaces(story_blocks[k]) # {} =>
                       result.stories[k].priority = PriorityOf(story_blocks[k])
                 /\ PriorityPlaces(story_blocks[k]) = {} =>
                       result.stories[k].priority = Medium

\* a story has been returned for a block that writes the priority HIGH
C17_UpperCasePriority ==
    /\ pipeline = "stories"
    /\ pc = "returned"
    /\ Len(result.stories) = 1
    /\ Contains(raw_output, LinePriorityUpper)
    /\ result.stories[1].priority = High

(***************************************************************************)
(* Failures of a call                                                      *)
(***************************************************************************)

\* C18: in all three pipelines a call without a configured generation
\* capability makes no generation call and ends with a raised error, and a
\* call whose generation fails for good ends with a raised error: a call that
\* raises returns no structure, and a structure is returned only for a text
\* the generation call answered, after no failure but overloads that extract
\* tried again.
C18_FailureRaises ==
    /\ pc = "raised" => result = NoResult /\ error # "none" /\ raw_output = <<>>
    /\ ~api_configured =>
          /\ gen_calls = 0
          /\ pc \in {"idle", "raised"}
          /\ pc = "raised" => error = "not_configured"
    /\ error = "not_configured" => gen_calls = 0 /\ pc = "raised"
    /\ result # NoResult => pc = "returned" /\ error = "none" /\ gen_calls >= 1
    /\ pc = "returned" =>
          /\ result # NoResult
          /\ gen_calls = overloaded + 1
          /\ last_failure # <<>> => pipeline = "extract" /\ IsOverloadError(last_failure)
    /\ (last_failure # <<>> /\ pc # "raised") =>
          pipeline = "extract" /\ IsOverloadError(last_failure)

\* the generation call of AcceptanceCriteriaGenerator.generate has failed
C18_GenerationFailed ==
    /\ pipeline = "criteria"
    /\ api_configured
    /\ last_failure # <<>>
    /\ pc = "raised"
    /\ error = "generation_error"

(***************************************************************************)
(* Calls that run at the same time                                         *)
(***************************************************************************)

\* what a call returns when it runs alone and its generation call answers text
AloneResult(p, text) ==
    IF p = "extract" THEN ExtractOutcome(text).requirements ELSE StoriesOutcome(text)

\* the results of the calls that run alone, by pipeline and text
AloneResults ==
    [p \in {"extract", "stories"} |->
        [text \in ConcurrentTexts(p) |-> AloneResult(p, text)]]

\* C19: calls of the pipelines that run at the same time on the shared
\* instances, their steps interleaved in any order, each return what the call
\* returns when it runs alone on the same generated text, and a call that has
\* not returned has no result.
C19_CallsIndependent ==
    \A c \in DOMAIN calls :
        /\ calls[c].pc = "returned" =>
              calls[c].result = AloneResults[calls[c].pipeline][calls[c].raw_output]
        /\ calls[c].pc # "returned" => calls[c].result = NoResult

\* two calls of generate on different texts are both inside the loop over
\* their blocks, each with a story collected
C19_BothInLoop ==
    \E c, d \in DOMAIN calls :
        /\ c # d
        /\ calls[c].pipeline = "stories" /\ calls[d].pipeline = "stories"
        /\ calls[c].raw_output # calls[d].raw_output
        /\ calls[c].pc = "parsing" /\ calls[c].stories # <<>>
        /\ calls[d].pc = "parsing" /\ calls[d].stories # <<>>

(***************************************************************************)
(* The formatters                                                          *)
(***************************************************************************)

\* the lines of a formatter's output
OutputLines == Split(formatted.output, <<"\n">>)

\* the lines of the output that open with a prefix
LinesWith(prefix) == SelectSeq(OutputLines, LAMBDA line : StartsWith(line, prefix))

\* the output of format_for_display has one entry for each requirement of the
\* batch, in the order of the batch
DisplayEntries ==
    LET entries == SelectSeq(LinesWith(<<"*", "*">>),
                             LAMBDA line : ~StartsWith(line, <<"*", "*", "T", "o", "t", "a", "l">>))
    IN /\ Len(entries) = Len(Returned)
       /\ \A k \in 1..Len(Returned) :
             entries[k] = <<"*", "*">> \o Returned[k].req_code \o <<"*", "*", ":", " ">>
                             \o Returned[k].description

\* the output of format_for_jira has, behind its heading, one line for each
\* story of the batch, in the order of the batch
JiraEntries ==
    /\ Len(OutputLines) = 1 + Len(result.stories)
    /\ \A k \in 1..Len(result.stories) :
          StartsWith(OutputLines[k + 1],
                     <<"\"">> \o result.stories[k].title \o <<"\"", ",", "\"">>
                        \o result.stories[k].user_story \o <<"\"", ",">>
                        \o result.stories[k].priority \o <<",">>)

\* the output of format_for_gherkin has one scenario for each record of the
\* batch, in the order of the batch, with its three clauses
GherkinEntries ==
    /\ Len(LinesWith(ScenarioPrefix)) = Len(result.criteria)
    /\ Len(LinesWith(GivenPrefix)) = Len(result.criteria)
    /\ Len(LinesWith(WhenPrefix)) = Len(result.criteria)
    /\ Len(LinesWith(ThenPrefix)) = Len(result.criteria)
    /\ \A k \in 1..Len(result.criteria) :
          /\ LinesWith(ScenarioPrefix)[k] = ScenarioPrefix \o result.criteria[k].scenario_name
          /\ LinesWith(GivenPrefix)[k] = GivenPrefix \o result.criteria[k].given
          /\ LinesWith(WhenPrefix)[k] = WhenPrefix \o result.criteria[k].when
          /\ LinesWith(ThenPrefix)[k] = ThenPrefix \o result.criteria[k].then

EntriesOfBatch ==
    formatted # NoFormat =>
        /\ pipeline = "extract" => DisplayEntries
        /\ pipeline = "stories" => JiraEntries
        /\ pipeline = "criteria" => GherkinEntries

\* C20: format_for_display, format_for_jira and format_for_gherkin only format:
\* the output holds one entry for each record of the batch, in the order of
\* the batch and none left out; a call leaves the batch as it was; and a second
\* call on the same batch returns the same string.
C20_FormattersOnlyFormat ==
    /\ []EntriesOfBatch
    /\ [][formatted' # formatted =>
             /\ result' = result
             /\ raw_output' = raw_output
             /\ formatted = NoFormat]_vars
    /\ [][(formatted # NoFormat /\ result' = result) => formatted' = formatted]_vars

\* format_for_jira has returned for a batch of two stories, one without a title
C20_UntitledStoryFormatted ==
    /\ pipeline = "stories"
    /\ formatted # NoFormat
    /\ Len(result.stories) = 2
    /\ \E k \in 1..2 : result.stories[k].title = <<>>
    /\ \E k \in 1..2 : result.stories[k].title # <<>>

(***************************************************************************)
(* The rows of format_for_jira, read back as CSV                           *)
(***************************************************************************)

Quote == "\""

\* the length of the run of double quotes of row that ends at p and starts at
\* lo or behind it
QuoteRun(row, lo, p) ==
    p - Min({r \in lo..p : \A q \in r..p : row[q] = Quote}) + 1

\* the double quotes that close the quoted field of row opened at i: those not
\* doubled
ClosingQuotes(row, i) ==
    {j \in (i + 1)..Len(row) :
        /\ row[j] = Quote
        /\ j = Len(row) \/ row[j + 1] # Quote
        /\ QuoteRun(row, i + 1, j) % 2 = 1}

\* row from lo to hi with every doubled double quote read as one
Unescaped(row, lo, hi) ==
    LET kept == SelectSeq([k \in 1..(hi - lo + 1) |-> lo + k - 1],
                          LAMBDA q : row[q] # Quote \/ QuoteRun(row, lo, q) % 2 = 0)
    IN [k \in 1..Len(kept) |-> row[kept[k]]]

\* the place of the first comma of row at from or behind it, Len(row) + 1 if none
FieldEnd(row, from) ==
    Min({e \in from..(Len(row) + 1) : e = Len(row) + 1 \/ row[e] = ","})

\* The field of row that starts at i, as a reader of comma-separated values
\* reads it, and the place of the comma that ends it: a field that opens with
\* a double quote runs to the double quote that closes it, and what stands
\* between that and the next comma is read as written.
FieldAt(row, i) ==
    IF i <= Len(row) /\ row[i] = Quote
    THEN IF ClosingQuotes(row, i) = {}
         THEN [value |-> Unescaped(row, i + 1, Len(row)), end |-> Len(row) + 1]
         ELSE LET j == Min(ClosingQuotes(row, i))
              IN [value |-> Unescaped(row, i + 1, j - 1)
                               \o SubSeq(row, j + 1, FieldEnd(row, j + 1) - 1),
                  end |-> FieldEnd(row, j + 1)]
    ELSE [value |-> SubSeq(row, i, FieldEnd(row, i) - 1), end |-> FieldEnd(row, i)]

RECURSIVE CsvFrom(_, _)
CsvFrom(row, i) ==
    IF FieldAt(row, i).end > Len(row) THEN <<FieldAt(row, i).value>>
    ELSE <<FieldAt(row, i).value>> \o CsvFrom(row, FieldAt(row, i).end + 1)

\* the fields of one CSV row
CsvFields(row) == CsvFrom(row, 1)

\* C21: the output of format_for_jira is the header row and one row for each
\* story, and every row reads back as five CSV fields, the first the title of
\* its story and the second its narrative, whatever commas and double quotes
\* the two hold.
C21_RowsReadBack ==
    (pipeline = "stories" /\ formatted # NoFormat) =>
        /\ Len(OutputLines) = 1 + Len(result.stories)
        /\ OutputLines[1] = CsvHeader
        /\ \A k \in 1..Len(result.stories) :
              LET fields == CsvFields(OutputLines[k + 1])
              IN /\ Len(fields) = 5
                 /\ fields[1] = result.stories[k].title
                 /\ fields[2] = result.stories[k].user_story

\* format_for_jira has returned for a story whose title holds a double quote
\* and whose narrative holds a comma
C21_QuotedTitleExported ==
    /\ pipeline = "stories"
    /\ formatted # NoFormat
    /\ \E k \in 1..Len(result.stories) :
          /\ Contains(result.stories[k].title, <<"\"">>)
          /\ Contains(result.stories[k].user_story, <<",">>)

(***************************************************************************)
(* The letter case of section headers                                      *)
(***************************************************************************)

\* a line with its header, if it is one in any letter case, spelled in Title Case
TitleCaseLine(line) ==
    IF Lower(line) = Lower(LineHdrF) THEN LineHdrF
    ELSE IF Lower(line) = Lower(LineHdrNF) THEN LineHdrNF
    ELSE line

\* a text with its section headers spelled in Title Case
TitleCaseHeaders(text) ==
    Join([k \in 1..Len(LinesOf(text)) |-> TitleCaseLine(LinesOf(text)[k])], <<"\n">>)

\* C22: the letter case of a section header does not change what extract
\* returns: the requirements returned for a text are those returned for the
\* same text with its headers spelled in Title Case, through the structured
\* parse and through the alternative parse.
C22_HeadersAnyCase ==
    (pipeline = "extract" /\ pc = "returned") =>
        LET spelled == ExtractOutcome(TitleCaseHeaders(raw_output)).requirements
        IN /\ result.functional = spelled.functional
           /\ result.non_functional = spelled.non_functional
           /\ result.total_count = spelled.total_count

\* extract has returned for a text whose only header is in lower case, with a
\* requirement under it
C22_LowerCaseHeader ==
    /\ pipeline = "extract"
    /\ pc = "returned"
    /\ LinesOf(raw_output)[1] = LineHdrLower
    /\ Len(LinesOf(raw_output)) >= 2
    /\ LinesOf(raw_output)[2] \in {LineFR1, LineBullet}
    /\ ~Contains(raw_output, LineHdrF)

(***************************************************************************)
(* The waits of extract                                                    *)
(***************************************************************************)

RECURSIVE SumOf(_)
SumOf(seq) == IF seq = <<>> THEN 0 ELSE Head(seq) + SumOf(Tail(seq))

C24_NormalizeIdempotent ==
    /\ description.passes >= 1 =>
          /\ description.text = CollapseWhitespace(description.matched)
          /\ CollapseWhitespace(description.text) = description.text
          /\ IsNormalized(description.text)
    /\ CollapseWhitespace(CollapseWhitespace(description.matched))
          = CollapseWhitespace(description.matched)

\* a matched text with white space to collapse has been cleaned up twice
C24_CleanedTwice ==
    /\ description.passes = 2
    /\ description.text # description.matched
    /\ description.text # <<>>
    /\ \E i \in 1..(Len(description.matched) - 1) :
          description.matched[i] \in Whitespace /\ description.matched[i + 1] \in Whitespace

(***************************************************************************)
(* The order of the patterns of _extract_requirement_items                 *)
(***************************************************************************)

\* the way an item is written on a line: "bulleted" (- FR-001: ...), "plain"
\* (FR-001: ...), "bold" (**FR-001**: ...), "loose" (the prefix and a colon
\* somewhere) or "none"
ItemKind(line) ==
    IF /\ line # <<>>
       /\ line[1] \in BulletChars
       /\ LitAt(line, CodeAt(line, SkipWs(line, 2), FR), <<":">>)
    THEN "bulleted"
    ELSE IF LitAt(line, CodeAt(line, 1, FR), <<":">>) THEN "plain"
    ELSE IF LitAt(line, 1, StarStar) /\ LitAt(line, CodeAt(line, 3, FR), <<"*", "*", ":">>)
    THEN "bold"
    ELSE IF Contains(line, FR) /\ Contains(line, <<":">>) THEN "loose"
    ELSE "none"

\* the code written on an item line of one of the three patterns
ItemCode(line) ==
    LET i == CASE ItemKind(line) = "bulleted" -> SkipWs(line, 2)
               [] ItemKind(line) = "plain" -> 1
               [] OTHER -> 3
    IN SubSeq(line, i, CodeAt(line, i, FR) - 1)

\* the lines of a section on which an item is written in one way
ItemLines(lines, kind) == SelectSeq(lines, LAMBDA line : ItemKind(line) = kind)

\* the first of the ways bulleted, plain, bold in which a line of the section
\* is written, "loose" if none is
FirstKind(lines) ==
    IF ItemLines(lines, "bulleted") # <<>> THEN "bulleted"
    ELSE IF ItemLines(lines, "plain") # <<>> THEN "plain"
    ELSE IF ItemLines(lines, "bold") # <<>> THEN "bold"
    ELSE "loose"

\* a response of one functional section: its header, then lines without header
IsOneSection(text) ==
    /\ LinesOf(text)[1] = LineHdrF
    /\ \A k \in 2..Len(LinesOf(text)) : LinesOf(text)[k] # LineHdrF

\* C25: _extract_requirement_items tries the patterns in the order bulleted,
\* unbulleted, bold and keeps the matches of the first that matches: the
\* requirements of a section are those of the lines written in the first of
\* the three ways that occurs in it, in order and no others, and the lines that
\* only the line scan reads give requirements only when no line is written in
\* any of the three ways.
C25_FirstPatternOnly ==
    (pipeline = "extract" /\ pc = "returned" /\ IsOneSection(raw_output)) =>
        LET lines == Tail(LinesOf(raw_output))
            first == ItemLines(lines, FirstKind(lines))
        IN /\ Len(result.functional) = Len(first)
           /\ FirstKind(lines) # "loose" =>
                 \A k \in 1..Len(first) : result.functional[k].req_code = ItemCode(first[k])
           /\ result.non_functional = <<>>

\* extract has returned for a section with a bold line above a bulleted one
C25_BoldAboveBulleted ==
    /\ pipeline = "extract"
    /\ pc = "returned"
    /\ IsOneSection(raw_output)
    /\ \E j, k \in 2..Len(LinesOf(raw_output)) :
          /\ j < k
          /\ LinesOf(raw_output)[j] = LineBold
          /\ LinesOf(raw_output)[k] = LineFR1
    /\ Len(result.functional) = 1

(***************************************************************************)
(* Clauses with several AND lines                                          *)
(***************************************************************************)

\* what the AND lines after the clause of one kind say, in their order
AndTexts(lines, kind) ==
    LET places == SelectSeq([i \in 1..Len(lines) |-> i],
                            LAMBDA i : i \in AndLinesAfter(lines, kind))
    IN [k \in 1..Len(places) |-> ClauseText(lines[places[k]])]

\* what the clause line of one kind says and what the AND lines after it say,
\* joined by ' AND '
JoinedClauses(lines, kind) ==
    Join(<<ClauseText(ClauseLine(lines, kind))>> \o AndTexts(lines, kind),
         <<" ">> \o AND \o <<" ">>)

\* C26: in a scenario of one clause a line, every AND line is a clause of its
\* own: given, when and then are each what the clause line says and what each
\* AND line after it says, joined by ' AND ', with nothing of a bullet or of an
\* AND marker inside a clause, however many AND lines follow.
C26_ContinuationsJoined ==
    (pipeline = "criteria" /\ pc = "returned"
        /\ Len(ScenarioBlocks(raw_output)) = 1
        /\ IsClauseBlock(LinesOf(ScenarioBlocks(raw_output)[1].content))) =>
        LET lines == LinesOf(ScenarioBlocks(raw_output)[1].content)
        IN /\ Len(result.criteria) = 1
           /\ result.criteria[1].given = JoinedClauses(lines, "given")
           /\ result.criteria[1].when = JoinedClauses(lines, "when")
           /\ result.criteria[1].then = JoinedClauses(lines, "then")

\* a scenario with two AND lines between GIVEN and WHEN has been parsed
C26_TwoContinuations ==
    /\ pipeline = "criteria"
    /\ pc = "returned"
    /\ Len(ScenarioBlocks(raw_output)) = 1
    /\ IsClauseBlock(LinesOf(ScenarioBlocks(raw_output)[1].content))
    /\ Cardinality(AndLinesAfter(LinesOf(ScenarioBlocks(raw_output)[1].content), "given")) = 2
    /\ Len(result.criteria) = 1

(***************************************************************************)
(* The line scan of _extract_requirement_items                             *)
(***************************************************************************)

\* the places of a line where a code FR-<digits> stands with a colon behind it
CodePlaces(line) ==
    {i \in 1..Len(line) : LitAt(line, CodeAt(line, i, FR), <<":">>)}

\* the code written on a line, and what the line says behind its colon
WrittenCode(line) ==
    SubSeq(line, Min(CodePlaces(line)), CodeAt(line, Min(CodePlaces(line)), FR) - 1)

WrittenText(line) ==
    Strip(SubSeq(line, CodeAt(line, Min(CodePlaces(line)), FR) + 1, Len(line)))

\* a line written as in 'FR-7: Must support SSO': a code, a colon and a text
\* of more than 10 characters
IsCodedLine(line) ==
    CodePlaces(line) # {} /\ Len(CollapseWhitespace(WrittenText(line))) > 10

\* none of the three patterns matches the one section of a response
NoPatternMatches(text) ==
    \A k \in 1..3 : FindAll(SectionsOf(text)[2], FR, k) = <<>>

\* C27: when none of the three patterns matches a section, the line scan
\* recovers every line of it written as in 'FR-7: Must support SSO': the
\* requirements returned are, in order, those of these lines, each with the
\* code written on its line and the text behind the colon as description.
C27_LineScanRecovers ==
    (pipeline = "extract" /\ pc = "returned" /\ IsOneSection(raw_output)
        /\ NoPatternMatches(raw_output)) =>
        LET coded == SelectSeq(Tail(LinesOf(raw_output)), IsCodedLine)
        IN /\ Len(result.functional) = Len(coded)
           /\ \A k \in 1..Len(coded) :
                 /\ result.functional[k].req_code = WrittenCode(coded[k])
                 /\ result.functional[k].description
                       = CollapseWhitespace(WrittenText(coded[k]))

\* extract has returned for a section that no pattern matches, with the line
\* '  FR-7: Must support SSO' in it
C27_IndentedLineScanned ==
    /\ pipeline = "extract"
    /\ pc = "returned"
    /\ IsOneSection(raw_output)
    /\ NoPatternMatches(raw_output)
    /\ \E k \in 2..Len(Split(raw_output, <<"\n">>)) :
          Split(raw_output, <<"\n">>)[k] = LineIndented
    /\ \E k \in 1..Len(result.functional) :
          result.functional[k].req_code = <<"F", "R", "-", "7">>

(***************************************************************************)
(* The end of a call of extract                                            *)
(***************************************************************************)

\* the three ways a call of extract that got to its loop can end
ReturnedResult == pc = "returned" /\ result # NoResult /\ error = "none"

OverloadError == pc = "raised" /\ result = NoResult /\ error = "overloaded"

ExtractionError == pc = "raised" /\ result = NoResult /\ error = "extraction_error"

\* C28: every call of extract ends, after at most 3 generation attempts and at
\* most 2 waits; a call that got past the guard on api_configured ends in
\* exactly one of a returned result, the overload error and the extraction
\* error, and the raise behind the loop is never reached.
C28_ExtractTerminates ==
    /\ [](/\ gen_calls <= 3
          /\ Len(waits) <= 2
          /\ error # "failed_after_retries"
          /\ (api_configured /\ pc \in {"returned", "raised"}) =>
                /\ ReturnedResult \/ OverloadError \/ ExtractionError
                /\ ~(ReturnedResult /\ OverloadError)
                /\ ~(ReturnedResult /\ ExtractionError)
                /\ ~(OverloadError /\ ExtractionError)
          /\ (api_configured /\ pc \notin {"returned", "raised"}) =>
                ~(ReturnedResult \/ OverloadError \/ ExtractionError))
    /\ <>(pc \in {"returned", "raised"})

\* the third attempt of a call of extract was overloaded, after two waits
C28_ThirdAttemptOverloaded ==
    /\ pipeline = "extract"
    /\ gen_calls = 3
    /\ Len(waits) = 2
    /\ OverloadError

(***************************************************************************)
(* C29: an HTTP error raised inside a try block keeps its status           *)
(***************************************************************************)

\* C29: the answer to POST /stories/generate for an input without stored
\* requirements has the status 404 the route raised, and no generation call
\* was made for it; the answers to POST /input/upload and POST /input/text
\* for a text that fails validation have the status 400 the route raised, and
\* no input was saved; no status raised inside a try block is answered as 500.
C29_RaisedStatusKept ==
    /\ (response.route = "stories/generate" /\ response.raised = 404)
           => (response.status_code = 404 /\ gen_calls = 0)
    /\ (response.route \in {"input/upload", "input/text"} /\ response.raised = 400)
           => (response.status_code = 400 /\ response.input_id = 0)
    /\ response.raised \in {400, 404} => response.status_code # 500

\* POST /stories/generate was answered for an input without requirements,
\* after an input was saved
C29_NoRequirementsAnswered ==
    /\ response.route = "stories/generate"
    /\ response.raised = 404
    /\ db.inputs # {}
    /\ db.requirements = {}

(***************************************************************************)
(* C30: delete_project removes every row of the project and no other       *)
(***************************************************************************)

\* the project a row of a table belongs to in d, through its chain of
\* parents; the empty set when the chain breaks before a project key
ProjectsOfInput(d, input_id) ==
    {i.project_id : i \in {x \in d.inputs : x.input_id = input_id}}

ProjectsOfRequirement(d, req_id) ==
    UNION {ProjectsOfInput(d, r.input_id) :
              r \in {x \in d.requirements : x.req_id = req_id}}

ProjectsOfStory(d, story_id) ==
    UNION {ProjectsOfRequirement(d, s.req_id) :
              s \in {x \in d.user_stories : x.story_id = story_id}}

\* the rows of d that do not belong to project p, table by table
RowsOutside(d, p) ==
    [projects |-> {x \in d.projects : x.project_id # p},
     inputs |-> {x \in d.inputs : x.project_id # p},
     requirements |-> {x \in d.requirements : p \notin ProjectsOfInput(d, x.input_id)},
     user_stories |->
         {x \in d.user_stories : p \notin ProjectsOfRequirement(d, x.req_id)},
     acceptance_criteria |->
         {x \in d.acceptance_criteria : p \notin ProjectsOfStory(d, x.story_id)}]

Tables(d) ==
    [projects |-> d.projects, inputs |-> d.inputs, requirements |-> d.requirements,
     user_stories |-> d.user_stories, acceptance_criteria |-> d.acceptance_criteria]

\* the tables hold fewer rows than were inserted: a delete_project has run
SomeRowDeleted(d) ==
    Cardinality(d.projects) + Cardinality(d.inputs) + Cardinality(d.requirements)
        + Cardinality(d.user_stories) + Cardinality(d.acceptance_criteria)
      < RowCount(d)

\* C30: a step of delete_project(p) leaves in every table exactly the rows
\* that did not belong to p before it, directly or through their parents: no
\* row of p remains and the rows of the other projects, and the rows of no
\* project, are the same; the counters are untouched.
C30_DeleteProjectCascades ==
    [][\A p \in ParentIds :
          (db' = DeleteProject(db, p) /\ db' # db)
              => /\ Tables(db') = RowsOutside(db, p)
                 /\ db'.sequence = db.sequence]_vars

\* every table had a row of the deleted project, a row of each is gone, and
\* the input of project 2 is still there
C30_ChainDeleted ==
    /\ pipeline = "database"
    /\ db.sequence = [projects |-> 1, inputs |-> 2, requirements |-> 1,
                      user_stories |-> 1, acceptance_criteria |-> 1]
    /\ db.projects = {}
    /\ db.inputs = {[input_id |-> 2, project_id |-> 2, input_type |-> "text"]}
    /\ db.requirements = {}
    /\ db.user_stories = {}
    /\ db.acceptance_criteria = {}


====
